---- MODULE Spec2Model ----
(***************************************************************************)
(* A model of otto's event-dispatch core: the module registry and its      *)
(* read/write lock (modules.go), the webhook endpoint and its signature    *)
(* check (server.go), and App.DispatchEvent / App.initializeModules        *)
(* (app.go).                                                               *)
(***************************************************************************)
EXTENDS Integers, Sequences, FiniteSets, TLC

(***************************************************************************)
(* Bounds of the model.                                                    *)
(***************************************************************************)
\* Module instances that exist; instances 2k-1 and 2k share one name.
MaxInst == 3
\* Goroutines that call RegisterModule concurrently (registry specification).
MaxReg == 2
\* RegisterModule calls made by those goroutines in one run.
MaxRegCalls == 2
\* Goroutines that call GetModules concurrently (registry specification).
MaxReaders == 1

Insts == 1..MaxInst
\* Module.Name(): two instances may carry the same name.
NameOf(m) == (m + 1) \div 2
Names == {NameOf(m) : m \in Insts}
\* The absent map entry.
NoModule == 0
\* No goroutine (an unlocked mutex).
NoOne == <<"none">>

\* Bytes of a digest in the model (sha256.Size bytes in the program).
DigestLen == 1

\* Events dispatched in one run (webhook requests and direct calls).
MaxReq == 1
\* RegisterModule calls the main goroutine makes before Start.
MaxMainReg == 2
\* RegisterModule calls made by module code (a handler, an Initialize).
MaxCodeReg == 1

Registrars == {<<"reg", i>> : i \in 1..MaxReg}
Readers == {<<"rd", i>> : i \in 1..MaxReaders}
Reqs == 1..MaxReq
\* The goroutine serving request q (or making the q-th direct call).
ReqId(q) == <<"req", q>>
\* The goroutine DispatchEvent starts for module name n of dispatch q.
TaskId(q, n) == <<"task", q, n>>
TaskIds == {TaskId(q, n) : q \in Reqs, n \in Names}
\* The main goroutine.
Main == <<"main">>
\* Every goroutine that can be inside RegisterModule / GetModules.
RegCallers == Registrars \cup TaskIds \cup {Main}
GmCallers == Readers \cup {ReqId(q) : q \in Reqs} \cup {Main}

(***************************************************************************)
(* Strings are sequences of one-character strings.                         *)
(***************************************************************************)
\* strings.HasPrefix
HasPrefix(s, p) == Len(s) >= Len(p) /\ SubSeq(s, 1, Len(p)) = p
\* strings.TrimPrefix
TrimPrefix(s, p) == IF HasPrefix(s, p) THEN SubSeq(s, Len(p) + 1, Len(s)) ELSE s

\* The algorithm prefix of the X-Hub-Signature-256 header.
SigPrefix == <<"s", "h", "a", "2", "5", "6", "=">>

\* encoding/hex: the value of one hex digit, -1 for any other character.
HexVal(c) ==
    CASE c = "0" -> 0 [] c = "1" -> 1 [] c = "2" -> 2 [] c = "3" -> 3
      [] c = "4" -> 4 [] c = "5" -> 5 [] c = "6" -> 6 [] c = "7" -> 7
      [] c = "8" -> 8 [] c = "9" -> 9
      [] c \in {"a", "A"} -> 10 [] c \in {"b", "B"} -> 11
      [] c \in {"c", "C"} -> 12 [] c \in {"d", "D"} -> 13
      [] c \in {"e", "E"} -> 14 [] c \in {"f", "F"} -> 15
      [] OTHER -> -1

HexDigits == <<"0", "1", "2", "3", "4", "5", "6", "7",
               "8", "9", "a", "b", "c", "d", "e", "f">>

\* hex.EncodeToString: two lower-case digits per byte.
EncodeToString(bytes) ==
    [i \in 1..(2 * Len(bytes)) |->
        IF i % 2 = 1 THEN HexDigits[(bytes[(i + 1) \div 2] \div 16) + 1]
                     ELSE HexDigits[(bytes[i \div 2] % 16) + 1]]

\* hex.DecodeString: an error for an odd length or a character that is no
\* hex digit, else one byte per pair of digits.
DecodeString(h) ==
    IF Len(h) % 2 = 1 \/ \E i \in 1..Len(h) : HexVal(h[i]) = -1
    THEN [err |-> TRUE, bytes |-> <<>>]
    ELSE [err |-> FALSE,
          bytes |-> [i \in 1..(Len(h) \div 2) |->
                        16 * HexVal(h[2 * i - 1]) + HexVal(h[2 * i])]]

\* A comparison that looks only at the bytes both slices have.
ConstantTimeCompareNoLen(x, y) ==
    IF \A i \in 1..Len(x) : i <= Len(y) => x[i] = y[i] THEN 1 ELSE 0

\* subtle.ConstantTimeCompare: 1 when the slices have the same length and
\* the same bytes, else 0.
ConstantTimeCompare(x, y) ==
    IF Len(x) # Len(y) THEN 0
    ELSE IF \A i \in 1..Len(x) : x[i] = y[i] THEN 1 ELSE 0

\* The shared secrets and request bodies of the model; "bad" is a body
\* that is not valid JSON.
Secrets == {"k1", "k2"}
Payloads == {"p1", "p2", "bad"}
SecretIdx(k) == CASE k = "k1" -> 0 [] k = "k2" -> 1
PayloadIdx(p) == CASE p = "p1" -> 0 [] p = "p2" -> 1 [] p = "bad" -> 2
DigestBytes == <<0, 1, 10, 16, 17, 26, 160, 161, 170>>

\* hmac.New(sha256.New, key); mac.Write(payload); mac.Sum(nil): DigestLen
\* bytes, different for every (key, payload) of the model.
HMAC(key, payload) ==
    [i \in 1..DigestLen |->
        DigestBytes[((3 * SecretIdx(key) + PayloadIdx(payload) + i - 1) % 9) + 1]]

\* The header value a sender holding `key` computes for `payload`.
Sign(key, payload) == SigPrefix \o EncodeToString(HMAC(key, payload))

\* Server.verifySignature, with whether it computed a digest.
verifySignatureRun(secret, payload, sig) ==
    IF ~HasPrefix(sig, SigPrefix)
    THEN [ok |-> FALSE, mac |-> FALSE]
    ELSE LET hexsig == TrimPrefix(sig, SigPrefix)
             expectedMAC == HMAC(secret, payload)
             received == DecodeString(hexsig)
         IN  IF received.err
             THEN [ok |-> FALSE, mac |-> TRUE]
             ELSE [ok |-> ConstantTimeCompare(received.bytes, expectedMAC) = 1,
                   mac |-> TRUE]

verifySignature(secret, payload, sig) == verifySignatureRun(secret, payload, sig).ok

VARIABLES
    webhookSecret, \* Server.webhookSecret
    vin,        \* verifySignature called on its own: the arguments
    vout,       \* ... and what the call did
    modules,    \* the registry: name -> instance, NoModule where absent
    rwW,        \* modulesMu: the goroutine holding the write lock, or NoOne
    readers,    \* modulesMu: the goroutines holding the read lock
    reg,        \* RegisterModule activations: caller -> [pc, m, ok (m was stored)]
    gm,         \* GetModules activations: caller -> [pc, copy, todo]
    slog,       \* what RegisterModule logged, in order
    ncalls,     \* RegisterModule calls started by the registrar goroutines
    logger,     \* App.Logger: "nil" in a bare App value, "set" after NewApp
    srvApp,     \* Server.app != nil
    req,        \* the requests: q -> [pc, via, body, payload, sig, et, resp, steps]
    task,       \* the handler goroutines: q -> n -> [st, m, calls, args]
    appLog,     \* the (module, event type) pairs App.Logger.Error has logged
    fault,      \* why the process died, "none" while it runs
    main,       \* the main goroutine: [pc, todo, cur, ireg, nreg]
    lc,         \* the lifecycle of an App: NewApp, Start, Shutdown
    lcLog,      \* what the lifecycle did, in order
    sd,         \* shutdownModules' goroutines: name -> state
    cmdIn,      \* IsSlashCommand called on its own: the comment body
    cmdOut,     \* ... and what it returned
    schedules,  \* OnCallSchedule rows: id -> [Policy, CurrentRotationIdx]
    scheduleUsers, \* OnCallScheduleUser rows: [ScheduleID, UserID, Position]
    users,      \* OnCallUser rows: id -> Active
    tasks,      \* OnCallTask rows: id -> [ScheduleID, Status, AssignedTo]
    assignments, \* the assignments made: [task, user, open]
    schedMu,    \* the lock of each schedule: its holder, or NoWorker
    worker,     \* the event handlers of the rotation engine
    rotLog,     \* per schedule, the positions assigned since its pool changed
    nops,       \* the operations begun
    GlobalConfig, \* the package variable GlobalConfig
    cfgIn,      \* LoadConfig called on its own: the file at its path
    cfgOut,     \* ... and what the call returned
    app,        \* NewApp: [pc, Config, DB]
    db,         \* the package variable db: [st, path]
    dbOnce,     \* dbOnce: "new", "running" (its function runs) or "done"
    idb,        \* InitDB activations: caller -> [pc, err, ret]
    opened,     \* the paths sql.Open was called with, in order
    got,        \* what the last GetDB returned
    shutdownSignal, \* App.shutdownSignal: "open" or "closed"
    wfs,        \* WaitForShutdown activations: waiter -> state
    nsig        \* SignalShutdown calls made

regVars == <<modules, rwW, readers, reg, gm, slog, ncalls>>
verVars == <<webhookSecret, vin, vout>>
lcVars == <<lc, lcLog, sd>>
cmdVars == <<cmdIn, cmdOut>>
ocVars == <<schedules, scheduleUsers, users, tasks, assignments, schedMu,
           worker, rotLog, nops>>
cfgVars == <<GlobalConfig, cfgIn, cfgOut, app, db, dbOnce, idb, opened, got>>
sigVars == <<shutdownSignal, wfs, nsig>>
extVars == <<lcVars, cmdVars, ocVars, cfgVars, sigVars>>
appVars == <<logger, srvApp, req, task, appLog, fault, main>>
vars == <<regVars, verVars, appVars, extVars>>

\* The process is running: an unrecovered panic in any goroutine ends it.
Alive == fault = "none"

EmptyMap == [n \in Names |-> NoModule]
IdleReg == [pc |-> "idle", m |-> NoModule, ok |-> FALSE]
IdleGm == [pc |-> "idle", copy |-> EmptyMap, todo |-> {}]

NoCall == [payload |-> "p1", sig |-> <<>>]
NoResult == [done |-> FALSE, ok |-> FALSE, mac |-> FALSE]

InitRegistry ==
    /\ modules = EmptyMap
    /\ rwW = NoOne
    /\ readers = {}
    /\ reg = [c \in RegCallers |-> IdleReg]
    /\ gm = [c \in GmCallers |-> IdleGm]
    /\ slog = <<>>
    /\ ncalls = 0

NewReq == [pc |-> "new", via |-> "http", body |-> TRUE, payload |-> "p1",
           sig |-> <<>>, et |-> "", resp |-> <<>>, steps |-> <<>>]
NoArgs == [et |-> "", raw |-> "p1"]
NoTask == [st |-> "none", m |-> NoModule, calls |-> 0, args |-> NoArgs]
NewMain == [pc |-> "setup", todo |-> {}, cur |-> NoModule, ireg |-> 0,
            nreg |-> 0]

\* An App whose lifecycle has not begun.
NewLc == [pc |-> "new", snap |-> EmptyMap, todo |-> {}, cur |-> NoModule,
          listener |-> "off", errors |-> <<>>, merr |-> "none",
          ret |-> "none"]

InitLcIdle ==
    /\ lc = NewLc
    /\ lcLog = <<>>
    /\ sd = [n \in Names |-> "none"]

NoVerdict == [done |-> FALSE, res |-> FALSE]

InitCmdIdle ==
    /\ cmdIn = <<>>
    /\ cmdOut = NoVerdict

\* The rotation engine with nothing stored and no handler running.
InitOcIdle ==
    /\ schedules = <<>>
    /\ scheduleUsers = {}
    /\ users = <<>>
    /\ tasks = <<>>
    /\ assignments = {}
    /\ schedMu = <<>>
    /\ worker = <<>>
    /\ rotLog = <<>>
    /\ nops = 0

\* No configuration loaded, no App under construction, no database opened.
InitCfgIdle ==
    /\ GlobalConfig = <<>>
    /\ cfgIn = <<>>
    /\ cfgOut = <<>>
    /\ app = <<>>
    /\ db = <<>>
    /\ dbOnce = "new"
    /\ idb = <<>>
    /\ opened = <<>>
    /\ got = <<>>

InitSigIdle ==
    /\ shutdownSignal = "open"
    /\ wfs = <<>>
    /\ nsig = 0

\* The parts of the program a specification leaves alone.
InitExtIdle ==
    InitLcIdle /\ InitCmdIdle /\ InitOcIdle /\ InitCfgIdle /\ InitSigIdle

\* No request yet, no handler goroutine, the main goroutine before Start.
InitAppIdle ==
    /\ req = [q \in Reqs |-> NewReq]
    /\ task = [q \in Reqs |-> [n \in Names |-> NoTask]]
    /\ appLog = {}
    /\ fault = "none"
    /\ main = NewMain

\* The registry as the package leaves it, a Server with its secret, and an
\* App that is either NewApp's (Logger set) or a bare App value (Logger
\* nil), the Server referring to it or, built by NewServer, to none.
Init ==
    /\ InitRegistry
    /\ InitAppIdle
    /\ InitExtIdle
    /\ webhookSecret = "k1"
    /\ logger \in {"nil", "set"}
    /\ srvApp \in BOOLEAN
    /\ logger = "nil" => srvApp
    /\ vin = NoCall
    /\ vout = NoResult

(***************************************************************************)
(* RegisterModule(m), one step per statement that other goroutines can     *)
(* observe.                                                                *)
(***************************************************************************)
\* modulesMu.Lock(): blocks while any goroutine holds the lock.
RegLock(c) ==
    /\ Alive
    /\ reg[c].pc = "lock"
    /\ rwW = NoOne
    /\ readers = {}
    /\ rwW' = c
    /\ reg' = [reg EXCEPT ![c].pc = "check"]
    /\ UNCHANGED <<modules, readers, gm, slog, ncalls, verVars, extVars, appVars>>

\* A RegisterModule that replaces an existing entry instead of rejecting.
RegCheckOverwrite(c) ==
    /\ Alive
    /\ reg[c].pc = "check"
    /\ reg' = [reg EXCEPT ![c].pc = "write"]
    /\ UNCHANGED <<modules, rwW, readers, gm, slog, ncalls, verVars, extVars, appVars>>

\* if _, exists := modules[m.Name()]; exists { slog.Error(...); return }
RegCheck(c) ==
    /\ Alive
    /\ reg[c].pc = "check"
    /\ IF modules[NameOf(reg[c].m)] # NoModule
       THEN /\ slog' = Append(slog, [msg |-> "module registered twice",
                                      m |-> reg[c].m])
            /\ reg' = [reg EXCEPT ![c].pc = "unlock"]
       ELSE /\ slog' = slog
            /\ reg' = [reg EXCEPT ![c].pc = "write"]
    /\ UNCHANGED <<modules, rwW, readers, gm, ncalls, verVars, extVars, appVars>>

\* modules[m.Name()] = m; slog.Info("module registered", ...)
RegWrite(c) ==
    /\ Alive
    /\ reg[c].pc = "write"
    /\ modules' = [modules EXCEPT ![NameOf(reg[c].m)] = reg[c].m]
    /\ slog' = Append(slog, [msg |-> "module registered", m |-> reg[c].m])
    /\ reg' = [reg EXCEPT ![c].pc = "unlock", ![c].ok = TRUE]
    /\ UNCHANGED <<rwW, readers, gm, ncalls, verVars, extVars, appVars>>

\* defer modulesMu.Unlock(), and the return to the caller.
RegUnlock(c) ==
    /\ Alive
    /\ reg[c].pc = "unlock"
    /\ rwW' = IF rwW = c THEN NoOne ELSE rwW
    /\ reg' = [reg EXCEPT ![c].pc = "ret"]
    /\ UNCHANGED <<modules, readers, gm, slog, ncalls, verVars, extVars, appVars>>

(***************************************************************************)
(* GetModules().                                                           *)
(***************************************************************************)
\* A GetModules that forgets to take the read lock.
GmRLockMissing(c) ==
    /\ Alive
    /\ gm[c].pc = "rlock"
    /\ gm' = [gm EXCEPT ![c] = [pc |-> "copy", copy |-> EmptyMap, todo |-> Names]]
    /\ UNCHANGED <<modules, rwW, readers, reg, slog, ncalls, verVars, extVars, appVars>>

\* modulesMu.RLock(); modulesCopy := make(map[string]Module, len(modules))
GmRLock(c) ==
    /\ Alive
    /\ gm[c].pc = "rlock"
    /\ rwW = NoOne
    /\ readers' = readers \cup {c}
    /\ gm' = [gm EXCEPT ![c] = [pc |-> "copy", copy |-> EmptyMap, todo |-> Names]]
    /\ UNCHANGED <<modules, rwW, reg, slog, ncalls, verVars, extVars, appVars>>

\* for name, mod := range modules { modulesCopy[name] = mod }: one key of
\* the live map per step, in any order.
GmCopy(c) ==
    /\ Alive
    /\ gm[c].pc = "copy"
    /\ \E n \in gm[c].todo :
         gm' = [gm EXCEPT ![c].copy[n] = modules[n],
                          ![c].todo = @ \ {n}]
    /\ UNCHANGED <<modules, rwW, readers, reg, slog, ncalls, verVars, extVars, appVars>>

\* A GetModules that returns without releasing the read lock.
GmRUnlockMissing(c) ==
    /\ Alive
    /\ gm[c].pc = "copy"
    /\ gm[c].todo = {}
    /\ gm' = [gm EXCEPT ![c].pc = "ret"]
    /\ UNCHANGED <<modules, rwW, readers, reg, slog, ncalls, verVars, extVars, appVars>>

\* return modulesCopy, with the deferred modulesMu.RUnlock().
GmRUnlock(c) ==
    /\ Alive
    /\ gm[c].pc = "copy"
    /\ gm[c].todo = {}
    /\ readers' = readers \ {c}
    /\ gm' = [gm EXCEPT ![c].pc = "ret"]
    /\ UNCHANGED <<modules, rwW, reg, slog, ncalls, verVars, extVars, appVars>>

(***************************************************************************)
(* The registry on its own: goroutines registering modules and goroutines  *)
(* taking snapshots, all concurrently.                                     *)
(***************************************************************************)
\* A goroutine calls RegisterModule(m).
RegCall(c, m) ==
    /\ Alive
    /\ reg[c].pc = "idle"
    /\ ncalls < MaxRegCalls
    /\ ncalls' = ncalls + 1
    /\ reg' = [reg EXCEPT ![c] = [pc |-> "lock", m |-> m, ok |-> FALSE]]
    /\ UNCHANGED <<modules, rwW, readers, gm, slog, verVars, extVars, appVars>>

\* RegisterModule has returned to that goroutine.
RegReturn(c) ==
    /\ Alive
    /\ reg[c].pc = "ret"
    /\ reg' = [reg EXCEPT ![c] = IdleReg]
    /\ UNCHANGED <<modules, rwW, readers, gm, slog, ncalls, verVars, extVars, appVars>>

\* A goroutine calls GetModules(); an earlier result is dropped.
GmCall(c) ==
    /\ Alive
    /\ gm[c].pc \in {"idle", "ret"}
    /\ gm' = [gm EXCEPT ![c] = [pc |-> "rlock", copy |-> EmptyMap, todo |-> {}]]
    /\ UNCHANGED <<modules, rwW, readers, reg, slog, ncalls, verVars, extVars, appVars>>

NextRegistry ==
    \/ \E c \in Registrars, m \in Insts : RegCall(c, m)
    \/ \E c \in Registrars : RegLock(c)
    \/ \E c \in Registrars : RegCheck(c)
    \/ \E c \in Registrars : RegWrite(c)
    \/ \E c \in Registrars : RegUnlock(c)
    \/ \E c \in Registrars : RegReturn(c)
    \/ \E c \in Readers : GmCall(c)
    \/ \E c \in Readers : GmRLock(c)
    \/ \E c \in Readers : GmCopy(c)
    \/ \E c \in Readers : GmRUnlock(c)

\* The registry specifications leave the rest of the program idle.
InitRegistryOnly ==
    /\ InitRegistry
    /\ InitAppIdle
    /\ InitExtIdle
    /\ webhookSecret = "k1"
    /\ logger = "set"
    /\ srvApp = TRUE
    /\ vin = NoCall
    /\ vout = NoResult

SpecRegistry == InitRegistryOnly /\ [][NextRegistry]_vars

(***************************************************************************)
(* verifySignature on its own, on every header value of a bounded set.     *)
(***************************************************************************)
\* Characters a signature's hex part is drawn from: digits, one letter in
\* both cases, and a letter that is no hex digit.
SigChars == {"0", "1", "a", "A", "g"}
MaxSigBody == 2 * DigestLen + 1
SigBodies == UNION {[1..k -> SigChars] : k \in 0..MaxSigBody}
SigPrefixes == {SigPrefix, <<>>, <<"s", "h", "a", "1", "=">>,
                SubSeq(SigPrefix, 1, 6), <<"S", "H", "A", "2", "5", "6", "=">>}
Sigs == {p \o b : p \in SigPrefixes, b \in SigBodies}

InitVerify ==
    /\ InitRegistry
    /\ InitAppIdle
    /\ InitExtIdle
    /\ logger = "set"
    /\ srvApp = TRUE
    /\ webhookSecret \in Secrets
    /\ vin \in [payload : Payloads, sig : Sigs]
    /\ vout = NoResult

\* s.verifySignature(payload, sig)
VerifyCall ==
    /\ vout = NoResult
    /\ LET r == verifySignatureRun(webhookSecret, vin.payload, vin.sig)
       IN  vout' = [done |-> TRUE, ok |-> r.ok, mac |-> r.mac]
    /\ UNCHANGED <<webhookSecret, vin, regVars, appVars, extVars>>

NextVerify == VerifyCall

SpecVerify == InitVerify /\ [][NextVerify]_vars

(***************************************************************************)
(* Server.handleWebhook, one step per check.                               *)
(***************************************************************************)
\* github.WebHookType(r): "" stands for a type ParseWebHook does not know.
EventTypes == {"issues", ""}
\* github.ParseWebHook(eventType, payload) returns no error.
ParseWebHookOK(et, payload) == et # "" /\ payload # "bad"
\* The X-Hub-Signature-256 values a request may carry: signed with one of
\* the secrets, or absent.
ReqSigs(payload) == {Sign(k, payload) : k \in Secrets} \cup {<<>>}

Step(q, name) == Append(req[q].steps, name)

\* A request reaches POST /webhook; the listener is up (or a test drives
\* the handler) once the main goroutine is past its setup. Requests are
\* taken one after the other; the goroutines of an earlier dispatch may
\* still be running.
Arrive(q, body, payload, sig, et) ==
    /\ Alive
    /\ main.pc \in {"serving", "nostart"}
    /\ req[q].pc = "new"
    /\ q > 1 => req[q - 1].pc = "done"
    /\ req' = [req EXCEPT ![q] = [NewReq EXCEPT !.pc = "read", !.via = "http",
                  !.body = body, !.payload = payload, !.sig = sig, !.et = et]]
    /\ UNCHANGED <<regVars, verVars, extVars, logger, srvApp, task, appLog, fault, main>>

\* payload, err := io.ReadAll(r.Body); on an error 400 and return.
ReadBody(q) ==
    /\ Alive
    /\ req[q].pc = "read"
    /\ IF req[q].body
       THEN req' = [req EXCEPT ![q].pc = "verify", ![q].steps = Step(q, "read")]
       ELSE req' = [req EXCEPT ![q].pc = "done", ![q].steps = Step(q, "read"),
                               ![q].resp = Append(@, 400)]
    /\ UNCHANGED <<regVars, verVars, extVars, logger, srvApp, task, appLog, fault, main>>

\* A handler that checks the signature and goes on whatever the verdict.
VerifyIgnored(q) ==
    /\ Alive
    /\ req[q].pc = "verify"
    /\ req' = [req EXCEPT ![q].pc = "parse", ![q].steps = Step(q, "verify")]
    /\ UNCHANGED <<regVars, verVars, extVars, logger, srvApp, task, appLog, fault, main>>

\* if !s.verifySignature(payload, sig) { 401; return }
Verify(q) ==
    /\ Alive
    /\ req[q].pc = "verify"
    /\ IF verifySignature(webhookSecret, req[q].payload, req[q].sig)
       THEN req' = [req EXCEPT ![q].pc = "parse", ![q].steps = Step(q, "verify")]
       ELSE req' = [req EXCEPT ![q].pc = "done", ![q].steps = Step(q, "verify"),
                               ![q].resp = Append(@, 401)]
    /\ UNCHANGED <<regVars, verVars, extVars, logger, srvApp, task, appLog, fault, main>>

\* event, err := github.ParseWebHook(eventType, payload); on an error 400
\* and return.
Parse(q) ==
    /\ Alive
    /\ req[q].pc = "parse"
    /\ IF ParseWebHookOK(req[q].et, req[q].payload)
       THEN req' = [req EXCEPT ![q].pc = "dispatch", ![q].steps = Step(q, "parse")]
       ELSE req' = [req EXCEPT ![q].pc = "done", ![q].steps = Step(q, "parse"),
                               ![q].resp = Append(@, 400)]
    /\ UNCHANGED <<regVars, verVars, extVars, logger, srvApp, task, appLog, fault, main>>

\* if s.app != nil { s.app.DispatchEvent(...) } else { slog.Error(...) }.
\* DispatchEvent starts with modules := GetModules().
Dispatch(q) ==
    /\ Alive
    /\ req[q].pc = "dispatch"
    /\ IF ~srvApp
       THEN /\ req' = [req EXCEPT ![q].pc = "respond"]
            /\ slog' = Append(slog, [msg |-> "No app reference in server",
                                     m |-> NoModule])
            /\ gm' = gm
       ELSE /\ req' = [req EXCEPT ![q].pc = "getmodules",
                                  ![q].steps = Step(q, "dispatch")]
            /\ gm' = [gm EXCEPT ![ReqId(q)].pc = "rlock"]
            /\ slog' = slog
    /\ UNCHANGED <<modules, rwW, readers, reg, ncalls, verVars, extVars, logger, srvApp,
                   task, appLog, fault, main>>

\* A test or another caller invokes app.DispatchEvent(eventType, event, raw)
\* itself, as TestRegisterModuleAndDispatch does.
DirectCall(q, et, payload) ==
    /\ Alive
    /\ main.pc \in {"serving", "nostart"}
    /\ req[q].pc = "new"
    /\ q > 1 => req[q - 1].pc = "done"
    /\ req' = [req EXCEPT ![q] = [NewReq EXCEPT !.pc = "getmodules",
                  !.via = "direct", !.payload = payload, !.et = et,
                  !.steps = <<"dispatch">>]]
    /\ gm' = [gm EXCEPT ![ReqId(q)].pc = "rlock"]
    /\ UNCHANGED <<modules, rwW, readers, reg, slog, ncalls, verVars, extVars, logger,
                   srvApp, task, appLog, fault, main>>

(***************************************************************************)
(* App.DispatchEvent after its GetModules.                                 *)
(***************************************************************************)
\* for name, mod := range modules { go func(n, m) {...}(name, mod) }: one
\* goroutine per entry of the snapshot, each given the dispatch's arguments.
DispatchSpawn(q) ==
    /\ Alive
    /\ req[q].pc = "getmodules"
    /\ gm[ReqId(q)].pc = "ret"
    /\ task' = [task EXCEPT ![q] = [n \in Names |->
                  IF gm[ReqId(q)].copy[n] # NoModule
                  THEN [NoTask EXCEPT !.st = "spawned", !.m = gm[ReqId(q)].copy[n],
                           !.args = [et |-> req[q].et, raw |-> req[q].payload]]
                  ELSE NoTask]]
    /\ req' = [req EXCEPT ![q].pc = "dispatched"]
    /\ UNCHANGED <<regVars, verVars, extVars, logger, srvApp, appLog, fault, main>>

\* A DispatchEvent that waits for its goroutines before it returns.
DispatchReturnWaits(q) ==
    /\ Alive
    /\ req[q].pc = "dispatched"
    /\ \A n \in Names : task[q][n].st \in {"none", "done"}
    /\ req' = [req EXCEPT ![q].pc = IF req[q].via = "http" THEN "respond" ELSE "done"]
    /\ UNCHANGED <<regVars, verVars, extVars, logger, srvApp, task, appLog, fault, main>>

\* DispatchEvent returns: nothing follows the loop.
DispatchReturn(q) ==
    /\ Alive
    /\ req[q].pc = "dispatched"
    /\ req' = [req EXCEPT ![q].pc = IF req[q].via = "http" THEN "respond" ELSE "done"]
    /\ UNCHANGED <<regVars, verVars, extVars, logger, srvApp, task, appLog, fault, main>>

\* w.WriteHeader(http.StatusOK)
Respond(q) ==
    /\ Alive
    /\ req[q].pc = "respond"
    /\ req' = [req EXCEPT ![q].pc = "done", ![q].steps = Step(q, "respond"),
                          ![q].resp = Append(@, 200)]
    /\ UNCHANGED <<regVars, verVars, extVars, logger, srvApp, task, appLog, fault, main>>

(***************************************************************************)
(* The goroutine of one module: go func(n, m) { if err := m.HandleEvent(   *)
(* eventType, event, raw); err != nil { a.Logger.Error(...) } }(name, mod). *)
(* What HandleEvent does is the module's: it returns nil, returns an       *)
(* error, panics, never returns, or registers another module first.        *)
(***************************************************************************)
\* RegisterModule calls that module code (a handler, an Initialize) has made.
CodeRegs ==
    Cardinality({t \in TaskIds : reg[t].m # NoModule})
        + main.ireg

\* The goroutine runs and m.HandleEvent(eventType, event, raw) returns nil.
TaskReturnNil(q, n) ==
    /\ Alive
    /\ task[q][n].st = "spawned"
    /\ task' = [task EXCEPT ![q][n].st = "done", ![q][n].calls = @ + 1]
    /\ UNCHANGED <<regVars, verVars, extVars, logger, srvApp, req, appLog, fault, main>>

\* HandleEvent returns an error, and the goroutine logs it:
\* a.Logger.Error("Event handling error", "module", n, "event", eventType,
\* "err", err). A method call on a nil *slog.Logger dereferences nil, and
\* the panic, recovered nowhere, ends the process.
TaskReturnErr(q, n) ==
    /\ Alive
    /\ task[q][n].st = "spawned"
    /\ IF logger = "nil"
       THEN /\ fault' = "nil logger"
            /\ task' = [task EXCEPT ![q][n].st = "panicked", ![q][n].calls = @ + 1]
            /\ appLog' = appLog
       ELSE /\ appLog' = appLog \cup {<<n, task[q][n].args.et>>}
            /\ task' = [task EXCEPT ![q][n].st = "done", ![q][n].calls = @ + 1]
            /\ fault' = fault
    /\ UNCHANGED <<regVars, verVars, extVars, logger, srvApp, req, main>>

\* HandleEvent panics: the goroutine has no recover, so the process ends.
TaskPanic(q, n) ==
    /\ Alive
    /\ task[q][n].st = "spawned"
    /\ task' = [task EXCEPT ![q][n].st = "panicked", ![q][n].calls = @ + 1]
    /\ fault' = "handler panic"
    /\ UNCHANGED <<regVars, verVars, extVars, logger, srvApp, req, appLog, main>>

\* HandleEvent is called and never returns.
TaskHang(q, n) ==
    /\ Alive
    /\ task[q][n].st = "spawned"
    /\ task' = [task EXCEPT ![q][n].st = "hung", ![q][n].calls = @ + 1]
    /\ UNCHANGED <<regVars, verVars, extVars, logger, srvApp, req, appLog, fault, main>>

\* HandleEvent is called and calls RegisterModule(m2).
TaskRegister(q, n, m2) ==
    /\ Alive
    /\ task[q][n].st = "spawned"
    /\ CodeRegs < MaxCodeReg
    /\ task' = [task EXCEPT ![q][n].st = "registering", ![q][n].calls = @ + 1]
    /\ reg' = [reg EXCEPT ![TaskId(q, n)] = [pc |-> "lock", m |-> m2, ok |-> FALSE]]
    /\ UNCHANGED <<modules, rwW, readers, gm, slog, ncalls, verVars, extVars, logger,
                   srvApp, req, appLog, fault, main>>

\* That RegisterModule returns, and HandleEvent returns nil.
TaskRegistered(q, n) ==
    /\ Alive
    /\ task[q][n].st = "registering"
    /\ reg[TaskId(q, n)].pc = "ret"
    /\ task' = [task EXCEPT ![q][n].st = "done"]
    /\ reg' = [reg EXCEPT ![TaskId(q, n)].pc = "idle"]
    /\ UNCHANGED <<modules, rwW, readers, gm, slog, ncalls, verVars, extVars, logger,
                   srvApp, req, appLog, fault, main>>

(***************************************************************************)
(* The main goroutine: it registers modules, then either calls App.Start,  *)
(* whose first step is initializeModules, or serves without it (a test, a  *)
(* Server of its own).                                                     *)
(***************************************************************************)
\* The instances that implement ModuleInitializer.
ImplementsInit(m) == m # 2

\* RegisterModule(m) from main or a package init, the instances in the
\* order of their numbers.
MainRegister(m) ==
    /\ Alive
    /\ main.pc = "setup"
    /\ main.nreg < MaxMainReg
    /\ m > reg[Main].m
    /\ main' = [main EXCEPT !.pc = "registering", !.nreg = @ + 1]
    /\ reg' = [reg EXCEPT ![Main] = [pc |-> "lock", m |-> m, ok |-> FALSE]]
    /\ UNCHANGED <<modules, rwW, readers, gm, slog, ncalls, verVars, extVars, logger,
                   srvApp, req, task, appLog, fault>>

\* That RegisterModule returns.
MainRegistered ==
    /\ Alive
    /\ main.pc \in {"registering", "im_registering"}
    /\ reg[Main].pc = "ret"
    /\ main' = [main EXCEPT !.pc = IF main.pc = "registering" THEN "setup"
                                                             ELSE "im_init"]
    /\ reg' = [reg EXCEPT ![Main].pc = "idle"]
    /\ UNCHANGED <<modules, rwW, readers, gm, slog, ncalls, verVars, extVars, logger,
                   srvApp, req, task, appLog, fault>>

\* Events are dispatched without App.Start having run: a bare App value,
\* or a Server built by NewServer.
MainSkipStart ==
    /\ Alive
    /\ main.pc = "setup"
    /\ main.nreg = MaxMainReg
    /\ logger = "nil" \/ ~srvApp
    /\ main' = [main EXCEPT !.pc = "nostart"]
    /\ UNCHANGED <<regVars, verVars, extVars, logger, srvApp, req, task, appLog, fault>>

\* App.Start, on an App that NewApp built, calls a.initializeModules(ctx):
\* modules := GetModules().
MainStart ==
    /\ Alive
    /\ main.pc = "setup"
    /\ main.nreg = MaxMainReg
    /\ logger = "set" /\ srvApp
    /\ main' = [main EXCEPT !.pc = "im_get"]
    /\ gm' = [gm EXCEPT ![Main].pc = "rlock"]
    /\ UNCHANGED <<modules, rwW, readers, reg, slog, ncalls, verVars, extVars, logger,
                   srvApp, req, task, appLog, fault>>

\* for name, mod := range modules: the loop runs over the snapshot.
ImRange ==
    /\ Alive
    /\ main.pc = "im_get"
    /\ gm[Main].pc = "ret"
    /\ main' = [main EXCEPT !.pc = "im_loop",
                   !.todo = {n \in Names : gm[Main].copy[n] # NoModule}]
    /\ UNCHANGED <<regVars, verVars, extVars, logger, srvApp, req, task, appLog, fault>>

\* One iteration: if initializer, ok := mod.(ModuleInitializer); ok, its
\* Initialize is called; after the last one initializeModules returns nil.
ImNext ==
    /\ Alive
    /\ main.pc = "im_loop"
    /\ IF main.todo = {}
       THEN main' = [main EXCEPT !.pc = "serving"]
       ELSE \E n \in main.todo :
              IF ImplementsInit(gm[Main].copy[n])
              THEN main' = [main EXCEPT !.pc = "im_init", !.cur = n,
                                        !.todo = @ \ {n}]
              ELSE main' = [main EXCEPT !.todo = @ \ {n}]
    /\ UNCHANGED <<regVars, verVars, extVars, logger, srvApp, req, task, appLog, fault>>

\* Initialize returns nil.
InitReturnNil ==
    /\ Alive
    /\ main.pc = "im_init"
    /\ main' = [main EXCEPT !.pc = "im_loop", !.cur = NoModule]
    /\ UNCHANGED <<regVars, verVars, extVars, logger, srvApp, req, task, appLog, fault>>

\* Initialize returns an error: a.Logger.Error(...); return err. Start
\* returns it and nothing is served.
InitReturnErr ==
    /\ Alive
    /\ main.pc = "im_init"
    /\ IF logger = "nil"
       THEN /\ fault' = "nil logger"
            /\ main' = main
       ELSE /\ main' = [main EXCEPT !.pc = "failed"]
            /\ fault' = fault
    /\ UNCHANGED <<regVars, verVars, extVars, logger, srvApp, req, task, appLog>>

\* Initialize calls RegisterModule(m2).
InitRegister(m2) ==
    /\ Alive
    /\ main.pc = "im_init"
    /\ CodeRegs < MaxCodeReg
    /\ main' = [main EXCEPT !.pc = "im_registering", !.ireg = @ + 1]
    /\ reg' = [reg EXCEPT ![Main] = [pc |-> "lock", m |-> m2, ok |-> FALSE]]
    /\ UNCHANGED <<modules, rwW, readers, gm, slog, ncalls, verVars, extVars, logger,
                   srvApp, req, task, appLog, fault>>

\* The instance module code registers: the last one, whose name is taken
\* or free depending on what main registered.
CodeInsts == {MaxInst}

AppRegCallers == TaskIds \cup {Main}
AppGmCallers == {ReqId(q) : q \in Reqs} \cup {Main}

Next ==
    \/ \E m \in Insts : MainRegister(m)
    \/ MainRegistered
    \/ MainSkipStart
    \/ MainStart
    \/ ImRange
    \/ ImNext
    \/ InitReturnNil
    \/ InitReturnErr
    \/ \E m \in CodeInsts : InitRegister(m)
    \/ \E c \in AppRegCallers : RegLock(c)
    \/ \E c \in AppRegCallers : RegCheck(c)
    \/ \E c \in AppRegCallers : RegWrite(c)
    \/ \E c \in AppRegCallers : RegUnlock(c)
    \/ \E c \in AppGmCallers : GmRLock(c)
    \/ \E c \in AppGmCallers : GmCopy(c)
    \/ \E c \in AppGmCallers : GmRUnlock(c)
    \/ \E q \in Reqs, body \in BOOLEAN, payload \in {"p1", "bad"},
          et \in EventTypes :
         \E sig \in ReqSigs(payload) :
            /\ ~body => payload = "p1" /\ sig = <<>> /\ et = ""
            /\ Arrive(q, body, payload, sig, et)
    \/ \E q \in Reqs : ReadBody(q)
    \/ \E q \in Reqs : Verify(q)
    \/ \E q \in Reqs : Parse(q)
    \/ \E q \in Reqs : Dispatch(q)
    \/ \E q \in Reqs : DirectCall(q, "issues", "p1")
    \/ \E q \in Reqs : DispatchSpawn(q)
    \/ \E q \in Reqs : DispatchReturn(q)
    \/ \E q \in Reqs : Respond(q)
    \/ \E q \in Reqs, n \in Names : TaskReturnNil(q, n)
    \/ \E q \in Reqs, n \in Names : TaskReturnErr(q, n)
    \/ \E q \in Reqs, n \in Names : TaskPanic(q, n)
    \/ \E q \in Reqs, n \in Names : TaskHang(q, n)
    \/ \E q \in Reqs, n \in Names, m \in CodeInsts : TaskRegister(q, n, m)
    \/ \E q \in Reqs, n \in Names : TaskRegistered(q, n)

Spec == Init /\ [][Next]_vars

(***************************************************************************)
(* C6: verifySignature(payload, sig) is true exactly when sig is "sha256=" *)
(* followed by hex digits that decode to the HMAC of payload under the     *)
(* server's secret; it is false, with no digest computed, when the prefix  *)
(* is absent, false when the hex does not decode, and false for the        *)
(* signature of any other payload or secret; the call leaves the server's  *)
(* state as it was.                                                        *)
(***************************************************************************)
IsHexHMAC(secret, payload, sig) ==
    /\ Len(sig) = Len(SigPrefix) + 2 * DigestLen
    /\ \A i \in 1..Len(SigPrefix) : sig[i] = SigPrefix[i]
    /\ \A i \in 1..DigestLen :
         LET hi == HexVal(sig[Len(SigPrefix) + 2 * i - 1])
             lo == HexVal(sig[Len(SigPrefix) + 2 * i])
         IN  hi >= 0 /\ lo >= 0 /\ 16 * hi + lo = HMAC(secret, payload)[i]

C6_Verdict ==
    vout.done =>
        /\ vout.ok <=> IsHexHMAC(webhookSecret, vin.payload, vin.sig)
        /\ ~HasPrefix(vin.sig, SigPrefix) => ~vout.ok /\ ~vout.mac
        /\ (HasPrefix(vin.sig, SigPrefix)
              /\ DecodeString(TrimPrefix(vin.sig, SigPrefix)).err) => ~vout.ok
        /\ \A k \in Secrets, p \in Payloads :
              (vin.sig = Sign(k, p) /\ <<k, p>> # <<webhookSecret, vin.payload>>)
                  => ~vout.ok

C6_VerifySignature ==
    /\ []C6_Verdict
    /\ [][vout'.done => UNCHANGED <<webhookSecret, vin, regVars>>]_vars

\* A signature written in upper-case hex has been accepted.
C6_Witness ==
    /\ vout.done
    /\ vout.ok
    /\ \E i \in 1..Len(vin.sig) : vin.sig[i] = "A"

(***************************************************************************)
(* C1: every DispatchEvent call leads to exactly one HandleEvent call per  *)
(* module of the registry, each with the arguments of the dispatch: when   *)
(* the process has stopped, no module of a dispatch made is left without   *)
(* its call.                                                               *)
(***************************************************************************)
Dispatched(q) == req[q].pc \in {"dispatched", "respond", "done"}

C1_ExactlyOneCallPerModule ==
    \A q \in Reqs : Dispatched(q) =>
        \A n \in Names : gm[ReqId(q)].copy[n] # NoModule =>
            /\ task[q][n].calls <= 1
            /\ task[q][n].m = gm[ReqId(q)].copy[n]
            /\ task[q][n].args = [et |-> req[q].et, raw |-> req[q].payload]
            /\ ~Alive => task[q][n].calls = 1

(***************************************************************************)
(* C2: a handler that returns an error is only logged: on every App,       *)
(* the bare App value of the test included, the process keeps running and  *)
(* the other modules still get the event.                                  *)
(***************************************************************************)
C2_ErrorIsOnlyLogged == fault # "nil logger"

(***************************************************************************)
(* C3: a panic inside one module's HandleEvent is caught in that module's  *)
(* goroutine: the process keeps running.                                   *)
(***************************************************************************)
C3_PanicIsCaught ==
    \A q \in Reqs, n \in Names :
        (task[q][n].st = "panicked" /\ fault # "nil logger") => Alive

(***************************************************************************)
(* C4: DispatchEvent returns without waiting for a handler, and the        *)
(* webhook handler then writes its 200, whatever the handlers do; the      *)
(* goroutines started stay runnable after the request is over.             *)
(***************************************************************************)
C4_DispatchDoesNotWait ==
    \A q \in Reqs : Alive =>
        /\ req[q].pc = "dispatched" => ENABLED DispatchReturn(q)
        /\ req[q].pc = "respond" => ENABLED Respond(q)
        /\ \A n \in Names :
              (req[q].pc = "done" /\ task[q][n].st = "spawned")
                  => ENABLED TaskReturnNil(q, n)

\* The 200 has been written while a handler of that dispatch never returns.
C4_Witness ==
    \E q \in Reqs, n \in Names :
        req[q].resp = <<200>> /\ task[q][n].st = "hung"

(***************************************************************************)
(* C5: the signature is checked before the payload is parsed and before    *)
(* dispatch, and no handler goroutine exists for a request whose signature *)
(* does not verify or whose payload does not parse.                        *)
(***************************************************************************)
Pos(steps, name) ==
    IF \E i \in 1..Len(steps) : steps[i] = name
    THEN CHOOSE i \in 1..Len(steps) : steps[i] = name
    ELSE 0

C5_VerifiedBeforeDispatch ==
    \A q \in Reqs : req[q].via = "http" =>
        LET st == req[q].steps
            valid == /\ req[q].body
                     /\ verifySignature(webhookSecret, req[q].payload, req[q].sig)
                     /\ ParseWebHookOK(req[q].et, req[q].payload)
        IN  /\ Pos(st, "parse") > 0 =>
                  Pos(st, "verify") > 0 /\ Pos(st, "verify") < Pos(st, "parse")
            /\ Pos(st, "dispatch") > 0 =>
                  /\ Pos(st, "verify") > 0
                  /\ Pos(st, "verify") < Pos(st, "dispatch")
                  /\ valid
            /\ \A n \in Names : task[q][n].st # "none" => valid

\* A request signed with another secret has been answered, and no handler
\* goroutine was started for it.
C5_Witness ==
    \E q \in Reqs :
        /\ req[q].pc = "done"
        /\ req[q].sig = Sign("k2", req[q].payload)
        /\ req[q].steps = <<"read", "verify">>
        /\ \A n \in Names : task[q][n].st = "none"
        /\ \E n \in Names : modules[n] # NoModule

(***************************************************************************)
(* C7: a webhook request gets exactly one response: 400 if the body cannot *)
(* be read, else 401 if the signature does not verify, else 400 if the     *)
(* event does not parse, else 200, whatever becomes of the dispatch: a     *)
(* response written is the one of the first failing check, and a request   *)
(* that is over, or whose process has stopped, has its response.           *)
(***************************************************************************)
ExpectedStatus(q) ==
    IF ~req[q].body THEN 400
    ELSE IF ~verifySignature(webhookSecret, req[q].payload, req[q].sig) THEN 401
    ELSE IF ~ParseWebHookOK(req[q].et, req[q].payload) THEN 400
    ELSE 200

C7_OneResponseByFirstFailure ==
    \A q \in Reqs : (req[q].via = "http" /\ req[q].pc # "new") =>
        /\ Len(req[q].resp) <= 1
        /\ req[q].resp # <<>> => req[q].resp = <<ExpectedStatus(q)>>
        /\ (req[q].pc = "done" \/ ~Alive) => Len(req[q].resp) = 1

(***************************************************************************)
(* C8: the registry holds at most one module per name and the first        *)
(* registration of a name wins: a later registration of that name is       *)
(* refused with an error log, replaces nothing and does not stop the       *)
(* process, and an entry once stored is never removed or replaced.         *)
(***************************************************************************)
\* The positions of the log entries RegisterModule wrote for name n.
LogOf(n) ==
    {i \in 1..Len(slog) : slog[i].m # NoModule /\ NameOf(slog[i].m) = n}

First(S) == CHOOSE i \in S : \A j \in S : i <= j

C8_FirstWins ==
    /\ Alive
    /\ \A n \in Names :
         IF LogOf(n) = {}
         THEN modules[n] = NoModule
         ELSE /\ slog[First(LogOf(n))].msg = "module registered"
              /\ modules[n] = slog[First(LogOf(n))].m
              /\ \A i \in LogOf(n) \ {First(LogOf(n))} :
                     slog[i].msg = "module registered twice"

C8_FirstRegistrationWins ==
    /\ []C8_FirstWins
    /\ [][\A n \in Names : modules[n] # NoModule => modules'[n] = modules[n]]_vars

\* Another instance with a name already taken has been refused.
C8_Witness ==
    \E i \in 1..Len(slog) :
        /\ slog[i].msg = "module registered twice"
        /\ modules[NameOf(slog[i].m)] # slog[i].m
        /\ modules[NameOf(slog[i].m)] # NoModule

(***************************************************************************)
(* C9: RegisterModule and GetModules may run concurrently: what GetModules *)
(* has copied equals the registry while it copies (a registration is seen  *)
(* whole or not at all), a snapshot it returned never changes, and of      *)
(* concurrent registrations of one name exactly one is stored.             *)
(***************************************************************************)
C9_CopyIsConsistent ==
    /\ \A c \in Readers : gm[c].pc = "copy" =>
          \A n \in Names \ gm[c].todo : gm[c].copy[n] = modules[n]
    /\ \A n \in Names :
          Cardinality({i \in LogOf(n) : slog[i].msg = "module registered"}) <= 1
    /\ \A c \in Registrars :
          reg[c].pc \in {"unlock", "ret"} =>
              /\ modules[NameOf(reg[c].m)] # NoModule
              /\ reg[c].ok => modules[NameOf(reg[c].m)] = reg[c].m

C9_ConcurrentRegistry ==
    /\ []C9_CopyIsConsistent
    /\ [][\A c \in Readers :
            (gm[c].pc = "ret" /\ gm'[c].pc = "ret") => gm'[c].copy = gm[c].copy]_vars

\* A goroutine holds a snapshot taken before a registration that the
\* registry now has, and a registration of a taken name has been refused.
C9_Witness ==
    /\ \E c \in Readers :
          /\ gm[c].pc = "ret"
          /\ \E n \in Names : gm[c].copy[n] = NoModule /\ modules[n] # NoModule
    /\ \E i \in 1..Len(slog) : slog[i].msg = "module registered twice"

(***************************************************************************)
(* C10: a HandleEvent or an Initialize that calls RegisterModule while the *)
(* dispatch or the iteration that invoked it is in progress never          *)
(* deadlocks: the invoker holds no registry lock while module code runs,   *)
(* whoever holds the lock can go on, and the module registered is not part *)
(* of the dispatch or iteration in progress.                               *)
(***************************************************************************)
InInitialize == main.pc \in {"im_loop", "im_init", "im_registering"}

ImplementsShutdown(m) == m # 1

\* A registry as RegisterModule can leave it.
Registries ==
    {f \in [Names -> Insts \cup {NoModule}] :
        \A n \in Names : f[n] # NoModule => NameOf(f[n]) = n}

Ev(e, n) == [ev |-> e, n |-> n]
Logged(e, n) == Append(lcLog, Ev(e, n))

lcRest == <<regVars, verVars, srvApp, req, task, appLog, main, cmdVars,
           ocVars, cfgVars, sigVars>>

\* config, err := LoadConfigFromFile(configPath); the App value and the
\* GitHub client.
NewAppConfig ==
    /\ Alive
    /\ lc.pc = "new"
    /\ \E ok \in BOOLEAN :
         lc' = [lc EXCEPT !.pc = IF ok THEN "telemetry" ELSE "newapp_failed"]
    /\ UNCHANGED <<lcRest, logger, fault, lcLog, sd>>

\* if err := InitTelemetry(ctx); err != nil { return nil, err };
\* app.Logger = RootSlogLogger()
NewAppTelemetry ==
    /\ Alive
    /\ lc.pc = "telemetry"
    /\ lcLog' = Logged("telemetry", NoModule)
    /\ \E ok \in BOOLEAN :
         IF ok
         THEN lc' = [lc EXCEPT !.pc = "storage"] /\ logger' = "set"
         ELSE lc' = [lc EXCEPT !.pc = "newapp_failed"] /\ logger' = logger
    /\ UNCHANGED <<lcRest, fault, sd>>

\* app.DB, err = InitDB(); app.server = NewServerWithApp(...); return app
NewAppStorage ==
    /\ Alive
    /\ lc.pc = "storage"
    /\ lcLog' = Logged("storage", NoModule)
    /\ \E ok \in BOOLEAN :
         lc' = [lc EXCEPT !.pc = IF ok THEN "built" ELSE "newapp_failed"]
    /\ UNCHANGED <<lcRest, logger, fault, sd>>

\* Start: a.initializeModules(ctx): modules := GetModules()
StartInitializeModules ==
    /\ Alive
    /\ lc.pc = "built"
    /\ lc' = [lc EXCEPT !.pc = "im_loop", !.snap = modules,
                        !.todo = {n \in Names : modules[n] # NoModule}]
    /\ UNCHANGED <<lcRest, logger, fault, lcLog, sd>>

\* One iteration of for name, mod := range modules: a module that is no
\* ModuleInitializer is passed over, the Initialize of another is called.
InitializeCall(n) ==
    /\ Alive
    /\ lc.pc = "im_loop"
    /\ n \in lc.todo
    /\ IF ImplementsInit(lc.snap[n])
       THEN /\ lc' = [lc EXCEPT !.pc = "im_init", !.cur = n, !.todo = @ \ {n}]
            /\ lcLog' = Logged("init_begin", n)
       ELSE /\ lc' = [lc EXCEPT !.todo = @ \ {n}]
            /\ lcLog' = lcLog
    /\ UNCHANGED <<lcRest, logger, fault, sd>>

\* An initializeModules that goes on with the loop after a failed
\* Initialize.
InitializeReturnGoesOn ==
    /\ Alive
    /\ lc.pc = "im_init"
    /\ \E ok \in BOOLEAN :
         /\ lcLog' = Logged(IF ok THEN "init_ok" ELSE "init_err", lc.cur)
         /\ lc' = [lc EXCEPT !.pc = "im_loop", !.cur = NoModule]
    /\ UNCHANGED <<lcRest, logger, fault, sd>>

\* Initialize returns: nil, and the loop goes on; or an error, which is
\* logged and returned by initializeModules and then by Start.
InitializeReturn ==
    /\ Alive
    /\ lc.pc = "im_init"
    /\ \E ok \in BOOLEAN :
         IF ok
         THEN /\ lcLog' = Logged("init_ok", lc.cur)
              /\ lc' = [lc EXCEPT !.pc = "im_loop", !.cur = NoModule]
         ELSE /\ lcLog' = Logged("init_err", lc.cur)
              /\ lc' = [lc EXCEPT !.pc = "start_failed", !.ret = "err"]
    /\ UNCHANGED <<lcRest, logger, fault, sd>>

\* initializeModules returns nil; go func() { a.server.Start() }()
StartListener ==
    /\ Alive
    /\ lc.pc = "im_loop"
    /\ lc.todo = {}
    /\ lc' = [lc EXCEPT !.pc = "start_info", !.listener = "spawned"]
    /\ lcLog' = Logged("listener", NoModule)
    /\ UNCHANGED <<lcRest, logger, fault, sd>>

\* A Start that returns only once the listener goroutine has ended.
StartReturnWaits ==
    /\ Alive
    /\ lc.pc = "start_info"
    /\ lc.listener = "failed"
    /\ lc' = [lc EXCEPT !.pc = "started", !.ret = "nil"]
    /\ UNCHANGED <<lcRest, logger, fault, lcLog, sd>>

\* a.Logger.Info("otto started", ...); return nil
StartReturn ==
    /\ Alive
    /\ lc.pc = "start_info"
    /\ lc' = [lc EXCEPT !.pc = "started", !.ret = "nil"]
    /\ UNCHANGED <<lcRest, logger, fault, lcLog, sd>>

\* The listener goroutine: s.server.ListenAndServe() listens, or returns
\* an error at once, which is logged.
ServerStart ==
    /\ Alive
    /\ lc.listener = "spawned"
    /\ \E ok \in BOOLEAN :
         lc' = [lc EXCEPT !.listener = IF ok THEN "listening" ELSE "failed"]
    /\ UNCHANGED <<lcRest, logger, fault, lcLog, sd>>

\* A Shutdown that returns the error of its first step at once.
ShutdownServerAborts ==
    /\ Alive
    /\ lc.pc = "started"
    /\ \E ok \in BOOLEAN :
         /\ lcLog' = Logged(IF ok THEN "server_stop" ELSE "server_stop_err",
                            NoModule)
         /\ lc' = [lc EXCEPT !.pc = IF ok THEN "sd_get" ELSE "stopped",
                             !.ret = IF ok THEN "none" ELSE "err",
                             !.listener = IF @ = "failed" THEN @ ELSE "closed"]
    /\ UNCHANGED <<lcRest, logger, fault, sd>>

\* Shutdown: if err := a.server.Shutdown(ctx); err != nil { a.Logger.Error }
ShutdownServer ==
    /\ Alive
    /\ lc.pc = "started"
    /\ \E ok \in BOOLEAN :
         lcLog' = Logged(IF ok THEN "server_stop" ELSE "server_stop_err",
                         NoModule)
    /\ lc' = [lc EXCEPT !.pc = "sd_get", !.ret = "none",
                        !.listener = IF @ = "failed" THEN @ ELSE "closed"]
    /\ UNCHANGED <<lcRest, logger, fault, sd>>

\* shutdownModules: modules := GetModules(); errors := make(chan error, ...)
ShutdownModulesGet ==
    /\ Alive
    /\ lc.pc = "sd_get"
    /\ lc' = [lc EXCEPT !.pc = "sd_spawn", !.snap = modules, !.errors = <<>>,
                        !.todo = {n \in Names : modules[n] # NoModule}]
    /\ lcLog' = Logged("modules_stop", NoModule)
    /\ UNCHANGED <<lcRest, logger, fault, sd>>

\* One iteration of the loop: for a ModuleShutdowner, wg.Add(1) and
\* go func(n, m) { ... }(name, shutdowner).
ShutdownSpawn(n) ==
    /\ Alive
    /\ lc.pc = "sd_spawn"
    /\ n \in lc.todo
    /\ lc' = [lc EXCEPT !.todo = @ \ {n}]
    /\ sd' = IF ImplementsShutdown(lc.snap[n])
             THEN [sd EXCEPT ![n] = "spawned"]
             ELSE sd
    /\ UNCHANGED <<lcRest, logger, fault, lcLog>>

\* The loop is over: the main goroutine reaches wg.Wait().
ShutdownSpawned ==
    /\ Alive
    /\ lc.pc = "sd_spawn"
    /\ lc.todo = {}
    /\ lc' = [lc EXCEPT !.pc = "sd_wait"]
    /\ UNCHANGED <<lcRest, logger, fault, lcLog, sd>>

\* The goroutine of module n runs: m.Shutdown(ctx) is called.
ModuleShutdownCall(n) ==
    /\ Alive
    /\ sd[n] = "spawned"
    /\ sd' = [sd EXCEPT ![n] = "running"]
    /\ lcLog' = Logged("sd_begin", n)
    /\ UNCHANGED <<lcRest, logger, fault, lc>>

\* An errors channel without buffer.
ErrorsCapNone(snap) == 0

\* errors := make(chan error, len(modules)): the capacity of the channel.
ErrorsCap(snap) == Cardinality({n \in Names : snap[n] # NoModule})

\* m.Shutdown returns: nil, or an error that is logged and sent to the
\* errors channel; the deferred wg.Done(). Nothing receives from the
\* channel before wg.Wait() has returned, so a send that finds the buffer
\* full blocks the goroutine for good.
ModuleShutdownReturn(n) ==
    /\ Alive
    /\ sd[n] = "running"
    /\ \E ok \in BOOLEAN :
         IF ok
         THEN /\ sd' = [sd EXCEPT ![n] = "returned"]
              /\ lcLog' = Logged("sd_ok", n)
              /\ lc' = lc
         ELSE IF Len(lc.errors) < ErrorsCap(lc.snap)
         THEN /\ sd' = [sd EXCEPT ![n] = "failed"]
              /\ lcLog' = Logged("sd_err", n)
              /\ lc' = [lc EXCEPT !.errors = Append(@, n)]
         ELSE /\ sd' = [sd EXCEPT ![n] = "blocked"]
              /\ lcLog' = Logged("sd_err", n)
              /\ lc' = lc
    /\ UNCHANGED <<lcRest, logger, fault>>

\* m.Shutdown never returns.
ModuleShutdownHang(n) ==
    /\ Alive
    /\ sd[n] = "running"
    /\ sd' = [sd EXCEPT ![n] = "hung"]
    /\ UNCHANGED <<lcRest, logger, fault, lc, lcLog>>

\* m.Shutdown panics: the goroutine has no recover and the process dies.
ModuleShutdownPanic(n) ==
    /\ Alive
    /\ sd[n] = "running"
    /\ sd' = [sd EXCEPT ![n] = "panicked"]
    /\ fault' = "shutdown panic"
    /\ UNCHANGED <<lcRest, logger, lc, lcLog>>

\* The goroutines whose wg.Done() has not run.
Pending == {n \in Names : sd[n] \in {"spawned", "running", "hung", "blocked"}}

\* What shutdownModules returns after close(errors): the first error of
\* the channel, or nil.
FirstError(errors) == IF errors = <<>> THEN "none" ELSE Head(errors)

\* A shutdownModules that does not wait for the goroutines.
ShutdownModulesWaitMissing ==
    /\ Alive
    /\ lc.pc = "sd_wait"
    /\ lc' = [lc EXCEPT !.pc = "sd_tel", !.merr = FirstError(lc.errors)]
    /\ lcLog' = Logged(IF lc.errors = <<>> THEN "modules_stopped"
                       ELSE "modules_stop_err", NoModule)
    /\ UNCHANGED <<lcRest, logger, fault, sd>>

\* wg.Wait() returns; close(errors); for err := range errors { return err };
\* Shutdown logs the error shutdownModules returned.
ShutdownModulesWait ==
    /\ Alive
    /\ lc.pc = "sd_wait"
    /\ Pending = {}
    /\ lc' = [lc EXCEPT !.pc = "sd_tel", !.merr = FirstError(lc.errors)]
    /\ lcLog' = Logged(IF lc.errors = <<>> THEN "modules_stopped"
                       ELSE "modules_stop_err", NoModule)
    /\ UNCHANGED <<lcRest, logger, fault, sd>>

\* if err := ShutdownTelemetry(ctx); err != nil { a.Logger.Error(...) }
ShutdownTelemetry ==
    /\ Alive
    /\ lc.pc = "sd_tel"
    /\ \E ok \in BOOLEAN :
         lcLog' = Logged(IF ok THEN "telemetry_stop" ELSE "telemetry_stop_err",
                         NoModule)
    /\ lc' = [lc EXCEPT !.pc = "sd_db"]
    /\ UNCHANGED <<lcRest, logger, fault, sd>>

\* if a.DB != nil { if err := a.DB.Close(); err != nil { a.Logger.Error } }
ShutdownCloseDB ==
    /\ Alive
    /\ lc.pc = "sd_db"
    /\ \E ok \in BOOLEAN :
         lcLog' = Logged(IF ok THEN "storage_close" ELSE "storage_close_err",
                         NoModule)
    /\ lc' = [lc EXCEPT !.pc = "sd_ret"]
    /\ UNCHANGED <<lcRest, logger, fault, sd>>

\* return nil
ShutdownReturn ==
    /\ Alive
    /\ lc.pc = "sd_ret"
    /\ lc' = [lc EXCEPT !.pc = "stopped", !.ret = "nil"]
    /\ UNCHANGED <<lcRest, logger, fault, lcLog, sd>>

InitLifecycle ==
    /\ rwW = NoOne
    /\ readers = {}
    /\ reg = [c \in RegCallers |-> IdleReg]
    /\ gm = [c \in GmCallers |-> IdleGm]
    /\ slog = <<>>
    /\ ncalls = 0
    /\ modules \in Registries
    /\ InitAppIdle
    /\ InitLcIdle
    /\ InitCmdIdle
    /\ InitOcIdle
    /\ InitCfgIdle
    /\ InitSigIdle
    /\ webhookSecret = "k1"
    /\ logger = "nil"
    /\ srvApp = TRUE
    /\ vin = NoCall
    /\ vout = NoResult

NextLifecycle ==
    \/ NewAppConfig
    \/ NewAppTelemetry
    \/ NewAppStorage
    \/ StartInitializeModules
    \/ \E n \in Names : InitializeCall(n)
    \/ InitializeReturn
    \/ StartListener
    \/ StartReturn
    \/ ServerStart
    \/ ShutdownServer
    \/ ShutdownModulesGet
    \/ \E n \in Names : ShutdownSpawn(n)
    \/ ShutdownSpawned
    \/ \E n \in Names : ModuleShutdownCall(n)
    \/ \E n \in Names : ModuleShutdownReturn(n)
    \/ \E n \in Names : ModuleShutdownHang(n)
    \/ \E n \in Names : ModuleShutdownPanic(n)
    \/ ShutdownModulesWait
    \/ ShutdownTelemetry
    \/ ShutdownCloseDB
    \/ ShutdownReturn

SpecLifecycle == InitLifecycle /\ [][NextLifecycle]_vars

(***************************************************************************)
(* C11: startup is ordered telemetry, storage, module initialization, HTTP *)
(* listener; modules are initialized one at a time; the first Initialize   *)
(* that fails makes Start return that error, no module is initialized      *)
(* after it and the listener is never started; on success the listener is  *)
(* started in the background and Start returns without waiting for it.     *)
(***************************************************************************)
At(evs) == {i \in 1..Len(lcLog) : lcLog[i].ev \in evs}
AllBefore(as, bs) == \A i \in At(as), j \in At(bs) : i < j
InitEvs == {"init_begin", "init_ok", "init_err"}

C11_StartupOrder ==
    /\ At({"storage"}) # {} => At({"telemetry"}) # {}
    /\ At(InitEvs \cup {"listener"}) # {} => At({"storage"}) # {}
    /\ AllBefore({"telemetry"}, {"storage"})
    /\ AllBefore({"storage"}, InitEvs \cup {"listener"})
    /\ AllBefore(InitEvs, {"listener"})
    /\ \A i \in At({"init_begin"}) :
          /\ i < Len(lcLog) =>
                /\ lcLog[i + 1].ev \in {"init_ok", "init_err"}
                /\ lcLog[i + 1].n = lcLog[i].n
          /\ \A j \in At({"init_begin"}) : lcLog[j].n = lcLog[i].n => i = j
    /\ \A i \in At({"init_err"}) :
          /\ i = Len(lcLog)
          /\ lc.pc = "start_failed"
          /\ lc.ret = "err"
          /\ lc.listener = "off"
    /\ lc.listener # "off" =>
          \A n \in Names :
              (modules[n] # NoModule /\ ImplementsInit(modules[n]))
                  => \E i \in At({"init_ok"}) : lcLog[i].n = n
    /\ (Alive /\ lc.pc = "start_info") => ENABLED StartReturn
    /\ lc.pc = "started" => lc.ret = "nil" /\ lc.listener # "off"

\* Start has returned the error of a failed Initialize while another
\* initializer was still to come, and nothing listens.
C11_Witness ==
    /\ lc.pc = "start_failed"
    /\ lc.listener = "off"
    /\ \E n \in lc.todo : ImplementsInit(lc.snap[n])

(***************************************************************************)
(* C12: Shutdown attempts its four steps in the order HTTP listener,       *)
(* modules, telemetry, storage, and a step that fails never keeps the      *)
(* later ones from being attempted: whatever steps fail, the next step is  *)
(* always taken, storage close is attempted and Shutdown returns.          *)
(***************************************************************************)
ServerEvs == {"server_stop", "server_stop_err"}
ModulesEvs == {"modules_stopped", "modules_stop_err"}
TelemetryEvs == {"telemetry_stop", "telemetry_stop_err"}
StorageEvs == {"storage_close", "storage_close_err"}

C12_ShutdownBestEffort ==
    /\ AllBefore(ServerEvs, {"modules_stop"})
    /\ AllBefore({"modules_stop"}, ModulesEvs)
    /\ AllBefore(ModulesEvs, TelemetryEvs)
    /\ AllBefore(TelemetryEvs, StorageEvs)
    /\ lc.pc \in {"sd_ret", "stopped"} =>
          /\ Cardinality(At(ServerEvs)) = 1
          /\ Cardinality(At(ModulesEvs)) = 1
          /\ Cardinality(At(TelemetryEvs)) = 1
          /\ Cardinality(At(StorageEvs)) = 1
    /\ Alive =>
          /\ lc.pc = "sd_get" => ENABLED ShutdownModulesGet
          /\ (lc.pc = "sd_wait" /\ Pending = {}) => ENABLED ShutdownModulesWait
          /\ lc.pc = "sd_tel" => ENABLED ShutdownTelemetry
          /\ lc.pc = "sd_db" => ENABLED ShutdownCloseDB
          /\ lc.pc = "sd_ret" => ENABLED ShutdownReturn

\* Shutdown has returned after each of its four steps failed.
C12_Witness ==
    /\ lc.pc = "stopped"
    /\ At({"server_stop_err"}) # {}
    /\ At({"modules_stop_err"}) # {}
    /\ At({"telemetry_stop_err"}) # {}
    /\ At({"storage_close_err"}) # {}

(***************************************************************************)
(* C13: when a module's Shutdown returned an error, the caller of          *)
(* App.Shutdown receives a module-shutdown error, the first one collected; *)
(* it receives no error only when no module shutdown failed.               *)
(***************************************************************************)
C13_ModuleErrorReturned ==
    lc.pc = "stopped" =>
        /\ lc.merr = FirstError(lc.errors)
        /\ lc.ret = "nil" <=> lc.errors = <<>>

(***************************************************************************)
(* C14: every module's Shutdown is started without waiting for another     *)
(* module's Shutdown, a Shutdown that hangs delays neither the start nor   *)
(* the end of the others, and Shutdown goes on to telemetry and storage    *)
(* only when every module's Shutdown has returned.                         *)
(***************************************************************************)
C14_ParallelThenWait ==
    /\ Alive =>
          /\ lc.pc = "sd_spawn" => \A n \in lc.todo : ENABLED ShutdownSpawn(n)
          /\ \A n \in Names :
                /\ sd[n] = "spawned" => ENABLED ModuleShutdownCall(n)
                /\ sd[n] = "running" => ENABLED ModuleShutdownReturn(n)
    /\ lc.pc \in {"sd_tel", "sd_db", "sd_ret", "stopped"} =>
          /\ \A n \in Names :
                (lc.snap[n] # NoModule /\ ImplementsShutdown(lc.snap[n]))
                    => sd[n] \in {"returned", "failed"}
          /\ AllBefore({"sd_ok", "sd_err"}, TelemetryEvs \cup StorageEvs)

\* One module's Shutdown hangs, another's was started after it and has
\* returned, and the main goroutine waits.
C14_Witness ==
    /\ lc.pc = "sd_wait"
    /\ \E n, m \in Names :
          /\ sd[n] = "hung"
          /\ sd[m] \in {"returned", "failed"}
          /\ \E i \in At({"sd_begin"}), j \in At({"sd_begin"}) :
                lcLog[i].n = n /\ lcLog[j].n = m /\ i < j

(***************************************************************************)
(* IsSlashCommand(body), on every comment body of a bounded set.           *)
(***************************************************************************)
\* The longest comment body tried.
MaxBody == 5

\* The characters bodies are made of: the slash, a letter, a blank, the
\* line separator.
BodyChars == {"/", "a", " ", "\n"}
Bodies == UNION {[1..k -> BodyChars] : k \in 0..MaxBody}

\* The characters strings.TrimSpace removes.
IsSpace(c) == c \in {" ", "\t", "\n", "\r"}

\* strings.SplitSeq(body, "\n"): the pieces between the separators.
RECURSIVE SplitSeq(_)
SplitSeq(body) ==
    IF \E i \in 1..Len(body) : body[i] = "\n"
    THEN LET i == CHOOSE i \in 1..Len(body) :
                     body[i] = "\n" /\ \A j \in 1..(i - 1) : body[j] # "\n"
         IN  <<SubSeq(body, 1, i - 1)>> \o SplitSeq(SubSeq(body, i + 1, Len(body)))
    ELSE <<body>>

\* strings.TrimSpace(line)
TrimSpace(line) ==
    LET keep == {i \in 1..Len(line) : ~IsSpace(line[i])}
    IN  IF keep = {} THEN <<>>
        ELSE SubSeq(line, CHOOSE i \in keep : \A j \in keep : i <= j,
                          CHOOSE i \in keep : \A j \in keep : j <= i)

\* The test of one line, without len(line) > 1.
IsCommandLineNoLen(line) ==
    /\ HasPrefix(TrimSpace(line), <<"/">>)
    /\ ~HasPrefix(TrimSpace(line), <<"/", "/">>)

\* strings.HasPrefix(line, "/") && len(line) > 1 &&
\* !strings.HasPrefix(line, "//"), on the trimmed line.
IsCommandLine(line) ==
    /\ HasPrefix(TrimSpace(line), <<"/">>)
    /\ Len(TrimSpace(line)) > 1
    /\ ~HasPrefix(TrimSpace(line), <<"/", "/">>)

\* for line := range lines { ... return true }; return false
IsSlashCommand(body) ==
    \E k \in 1..Len(SplitSeq(body)) : IsCommandLine(SplitSeq(body)[k])

InitCommand ==
    /\ InitRegistry
    /\ InitAppIdle
    /\ InitLcIdle
    /\ InitOcIdle
    /\ InitCfgIdle
    /\ InitSigIdle
    /\ webhookSecret = "k1"
    /\ logger = "set"
    /\ srvApp = TRUE
    /\ vin = NoCall
    /\ vout = NoResult
    /\ cmdIn \in Bodies
    /\ cmdOut = NoVerdict

IsSlashCommandCall ==
    /\ cmdOut = NoVerdict
    /\ cmdOut' = [done |-> TRUE, res |-> IsSlashCommand(cmdIn)]
    /\ UNCHANGED <<cmdIn, regVars, verVars, appVars, lcVars, ocVars, cfgVars,
                   sigVars>>

NextCommand == IsSlashCommandCall

SpecCommand == InitCommand /\ [][NextCommand]_vars

(***************************************************************************)
(* C15: IsSlashCommand(text) is true exactly when some line of text,       *)
(* trimmed, starts with "/", has at least one more character and does not  *)
(* start with "//": true for "/oncall ack", false for "// not a command",  *)
(* "plain text" and a lone "/", true when only the second line is a        *)
(* command.                                                                *)
(***************************************************************************)
\* Position i of body holds the slash of a command: only blanks between
\* the start of its line and it, something other than a second slash right
\* after it, and a character that is no blank later on its line.
CommandAt(body, i) ==
    /\ body[i] = "/"
    /\ \E b \in 1..i :
          /\ b = 1 \/ body[b - 1] = "\n"
          /\ \A j \in b..(i - 1) : body[j] = " "
    /\ i < Len(body)
    /\ body[i + 1] # "/"
    /\ \E e \in (i + 1)..Len(body) :
          /\ body[e] \notin {" ", "\n"}
          /\ \A j \in (i + 1)..e : body[j] # "\n"

C15_IsSlashCommand ==
    /\ cmdOut.done =>
          (cmdOut.res <=> \E i \in 1..Len(cmdIn) : CommandAt(cmdIn, i))
    /\ IsSlashCommand(<<"/", "o", "n", "c", "a", "l", "l", " ", "a", "c", "k">>)
    /\ ~IsSlashCommand(<<"/", "/", " ", "n", "o", "t", " ", "a", " ", "c",
                         "o", "m", "m", "a", "n", "d">>)
    /\ ~IsSlashCommand(<<"p", "l", "a", "i", "n", " ", "t", "e", "x", "t">>)
    /\ ~IsSlashCommand(<<"/">>)
    /\ IsSlashCommand(<<"h", "i", "\n", "/", "e", "s", "c", "a", "l", "a",
                        "t", "e">>)

\* A body whose first line is text and whose second line, indented, is a
\* command has been found to hold a command.
C15_Witness ==
    /\ cmdOut.done
    /\ cmdOut.res
    /\ cmdIn = <<"a", "\n", " ", "/", "a">>

(***************************************************************************)
(* The on-call rotation engine. Its rows are the types OnCallUser,         *)
(* OnCallSchedule, OnCallScheduleUser and OnCallTask; its operations       *)
(* follow section 4.5 of the specification: every operation on a schedule  *)
(* takes that schedule's lock, reads the rotation index and the task's     *)
(* status, writes what the rotation policy decides and releases the lock.  *)
(***************************************************************************)
MaxUsers == 2
MaxTasks == 2
MaxOps == 3

Scheds == {1, 2}
Workers == {1, 2}
OcUsers == 1..MaxUsers
OcTasks == 1..MaxTasks
NoWorker == 0
NoUser == 0
NoIdx == 0 - 1
RoundRobinPolicy == "round-robin"
SequentialPolicy == "sequential"

NoTaskRow == [ScheduleID |-> 0, Status |-> "none", AssignedTo |-> NoUser]
IdleWorker == [pc |-> "idle", op |-> "none", s |-> 0, t |-> 0, u |-> NoUser,
               li |-> NoIdx, lst |-> "none"]

Members(s) == {r \in scheduleUsers : r.ScheduleID = s}
Size(s) == Cardinality(Members(s))
IsMember(s, u) == \E r \in Members(s) : r.UserID = u
UserAt(s, p) == (CHOOSE r \in Members(s) : r.Position = p).UserID
PosOf(s, u) == (CHOOSE r \in Members(s) : r.UserID = u).Position
NextIdx(s, p) == (p + 1) % Size(s)

\* The first position, trying from, from + 1, ... and wrapping, whose
\* responder is active; NoIdx when all positions were tried in vain.
FirstActiveFrom(s, from) ==
    LET n == Size(s)
        hops == {k \in 0..(n - 1) : users[UserAt(s, (from + k) % n)].Active}
    IN  IF hops = {} THEN NoIdx
        ELSE (from + (CHOOSE k \in hops : \A j \in hops : k <= j)) % n

\* The open assignments of task t closed.
Closed(t) ==
    {IF a.task = t THEN [a EXCEPT !.open = FALSE] ELSE a : a \in assignments}

ocRest == <<regVars, verVars, appVars, lcVars, cmdVars, cfgVars, sigVars>>

\* An event for the engine arrives at a handler.
Begin(w, op, s, t, u) ==
    /\ worker[w].pc = "idle"
    /\ nops < MaxOps
    /\ nops' = nops + 1
    /\ worker' = [worker EXCEPT ![w] = [pc |-> "lock", op |-> op, s |-> s,
                     t |-> t, u |-> u, li |-> NoIdx, lst |-> "none"]]
    /\ UNCHANGED <<schedules, scheduleUsers, users, tasks, assignments,
                   schedMu, rotLog, ocRest>>

\* A handler that goes on without the schedule's lock.
LockMissing(w) ==
    /\ worker[w].pc = "lock"
    /\ worker' = [worker EXCEPT ![w].pc = "read"]
    /\ UNCHANGED <<schedules, scheduleUsers, users, tasks, assignments,
                   schedMu, rotLog, nops, ocRest>>

\* The handler takes the lock of its schedule.
Lock(w) ==
    /\ worker[w].pc = "lock"
    /\ schedMu[worker[w].s] = NoWorker
    /\ schedMu' = [schedMu EXCEPT ![worker[w].s] = w]
    /\ worker' = [worker EXCEPT ![w].pc = "read"]
    /\ UNCHANGED <<schedules, scheduleUsers, users, tasks, assignments,
                   rotLog, nops, ocRest>>

\* It reads the schedule's rotation index and the status of its task.
Read(w) ==
    /\ worker[w].pc = "read"
    /\ worker' = [worker EXCEPT
          ![w].pc = "write",
          ![w].li = schedules[worker[w].s].CurrentRotationIdx,
          ![w].lst = IF worker[w].t = 0 THEN "none"
                     ELSE tasks[worker[w].t].Status]
    /\ UNCHANGED <<schedules, scheduleUsers, users, tasks, assignments,
                   schedMu, rotLog, nops, ocRest>>

\* It releases the lock.
Unlock(w) ==
    /\ worker[w].pc = "unlock"
    /\ schedMu' = [schedMu EXCEPT ![worker[w].s] =
                       IF @ = w THEN NoWorker ELSE @]
    /\ worker' = [worker EXCEPT ![w] = IdleWorker]
    /\ UNCHANGED <<schedules, scheduleUsers, users, tasks, assignments,
                   rotLog, nops, ocRest>>

\* A policy under which every assignment advances the rotation index.
AdvancesOnAssignAlways(s) == TRUE

\* A policy under which no assignment advances the rotation index.
AdvancesOnAssignNever(s) == FALSE

\* round-robin advances the rotation index on every assignment, sequential
\* does not.
AdvancesOnAssign(s) == schedules[s].Policy = RoundRobinPolicy

\* An engine that reassigns a task whatever its status.
MayReassignAlways(st) == st # "none"

\* Escalation and reassignment happen only from pending and assigned.
MayReassign(st) == st \in {"pending", "assigned"}

\* A removal that leaves the rotation index as it was.
IdxAfterRemoveKept(li, p, n) == li

\* The rotation index after the member at position p left a pool of n: it
\* keeps pointing at the same member, or at the one that followed the
\* member removed; NoIdx when the pool is empty.
IdxAfterRemove(li, p, n) ==
    IF n = 1 THEN NoIdx
    ELSE IF p < li THEN li - 1
    ELSE li % (n - 1)

\* Task t of schedule s goes to the first active responder from position
\* from; it stays as it is, pending if new, when no responder is active.
Assign(s, t, from) ==
    LET p == FirstActiveFrom(s, from)
    IN  IF p = NoIdx
        THEN /\ tasks' = [tasks EXCEPT ![t] =
                    [ScheduleID |-> s,
                     Status |-> IF @.Status = "none" THEN "pending" ELSE @.Status,
                     AssignedTo |-> @.AssignedTo]]
             /\ UNCHANGED <<schedules, assignments, rotLog>>
        ELSE /\ tasks' = [tasks EXCEPT ![t] =
                    [ScheduleID |-> s, Status |-> "assigned",
                     AssignedTo |-> UserAt(s, p)]]
             /\ assignments' = Closed(t) \cup
                    {[task |-> t, user |-> UserAt(s, p), open |-> TRUE]}
             /\ schedules' = IF AdvancesOnAssign(s)
                             THEN [schedules EXCEPT
                                      ![s].CurrentRotationIdx = NextIdx(s, p)]
                             ELSE schedules
             /\ rotLog' = IF schedules[s].Policy = RoundRobinPolicy
                          THEN [rotLog EXCEPT ![s] = Append(@, p)]
                          ELSE rotLog

\* A new task is created on the schedule and assigned by its policy.
Create(w) ==
    /\ worker[w].pc = "write"
    /\ worker[w].op = "create"
    /\ worker' = [worker EXCEPT ![w].pc = "unlock"]
    /\ IF \E t \in OcTasks : tasks[t].Status = "none"
       THEN Assign(worker[w].s,
                   CHOOSE t \in OcTasks :
                       /\ tasks[t].Status = "none"
                       /\ \A t2 \in OcTasks : tasks[t2].Status = "none" => t <= t2,
                   worker[w].li)
       ELSE UNCHANGED <<tasks, schedules, assignments, rotLog>>
    /\ UNCHANGED <<scheduleUsers, users, schedMu, nops, ocRest>>

\* The escalation window of a task has passed, or a pending task is
\* retried: it is reassigned to the next responder in rotation.
Escalate(w) ==
    /\ worker[w].pc = "write"
    /\ worker[w].op = "escalate"
    /\ worker' = [worker EXCEPT ![w].pc = "unlock"]
    /\ LET s == worker[w].s
           t == worker[w].t
           u == tasks[t].AssignedTo
       IN  IF MayReassign(worker[w].lst)
           THEN Assign(s, t,
                       IF \/ AdvancesOnAssign(s)
                          \/ worker[w].lst = "pending"
                          \/ ~IsMember(s, u)
                       THEN worker[w].li
                       ELSE NextIdx(s, PosOf(s, u)))
           ELSE UNCHANGED <<tasks, schedules, assignments, rotLog>>
    /\ UNCHANGED <<scheduleUsers, users, schedMu, nops, ocRest>>

\* Under the sequential policy the index moves on when the current
\* responder acknowledges or completes a task.
AfterAckOrComplete(s, li, u) ==
    IF /\ schedules[s].Policy = SequentialPolicy
       /\ FirstActiveFrom(s, li) # NoIdx
       /\ UserAt(s, FirstActiveFrom(s, li)) = u
    THEN [schedules EXCEPT
            ![s].CurrentRotationIdx = NextIdx(s, FirstActiveFrom(s, li))]
    ELSE schedules

\* The responder acknowledges the task.
Ack(w) ==
    /\ worker[w].pc = "write"
    /\ worker[w].op = "ack"
    /\ worker' = [worker EXCEPT ![w].pc = "unlock"]
    /\ IF worker[w].lst = "assigned"
       THEN /\ tasks' = [tasks EXCEPT ![worker[w].t].Status = "acked"]
            /\ schedules' = AfterAckOrComplete(worker[w].s, worker[w].li,
                                               tasks[worker[w].t].AssignedTo)
       ELSE UNCHANGED <<tasks, schedules>>
    /\ UNCHANGED <<assignments, rotLog, scheduleUsers, users, schedMu, nops,
                   ocRest>>

\* The responder completes the task; its assignment ends.
Complete(w) ==
    /\ worker[w].pc = "write"
    /\ worker[w].op = "complete"
    /\ worker' = [worker EXCEPT ![w].pc = "unlock"]
    /\ IF worker[w].lst = "acked"
       THEN /\ tasks' = [tasks EXCEPT ![worker[w].t].Status = "completed"]
            /\ assignments' = Closed(worker[w].t)
            /\ schedules' = AfterAckOrComplete(worker[w].s, worker[w].li,
                                               tasks[worker[w].t].AssignedTo)
       ELSE UNCHANGED <<tasks, schedules, assignments>>
    /\ UNCHANGED <<rotLog, scheduleUsers, users, schedMu, nops, ocRest>>

\* A responder leaves the schedule: the positions after theirs move up.
RemoveMember(w) ==
    /\ worker[w].pc = "write"
    /\ worker[w].op = "remove"
    /\ worker' = [worker EXCEPT ![w].pc = "unlock"]
    /\ LET s == worker[w].s
           u == worker[w].u
       IN  IF IsMember(s, u)
           THEN /\ scheduleUsers' =
                      {IF r.ScheduleID = s /\ r.Position > PosOf(s, u)
                       THEN [r EXCEPT !.Position = @ - 1] ELSE r :
                       r \in scheduleUsers \ {[ScheduleID |-> s, UserID |-> u,
                                               Position |-> PosOf(s, u)]}}
                /\ schedules' = [schedules EXCEPT ![s].CurrentRotationIdx =
                      IdxAfterRemove(worker[w].li, PosOf(s, u), Size(s))]
                /\ rotLog' = [rotLog EXCEPT ![s] = <<>>]
           ELSE UNCHANGED <<scheduleUsers, schedules, rotLog>>
    /\ UNCHANGED <<tasks, assignments, users, schedMu, nops, ocRest>>

\* A responder joins the schedule at the last position.
AddMember(w) ==
    /\ worker[w].pc = "write"
    /\ worker[w].op = "add"
    /\ worker' = [worker EXCEPT ![w].pc = "unlock"]
    /\ LET s == worker[w].s
           u == worker[w].u
       IN  IF ~IsMember(s, u)
           THEN /\ scheduleUsers' = scheduleUsers \cup
                      {[ScheduleID |-> s, UserID |-> u, Position |-> Size(s)]}
                /\ schedules' = [schedules EXCEPT ![s].CurrentRotationIdx =
                      IF worker[w].li = NoIdx THEN 0 ELSE worker[w].li]
                /\ rotLog' = [rotLog EXCEPT ![s] = <<>>]
           ELSE UNCHANGED <<scheduleUsers, schedules, rotLog>>
    /\ UNCHANGED <<tasks, assignments, users, schedMu, nops, ocRest>>

\* A responder becomes inactive.
Deactivate(u) ==
    /\ users[u].Active
    /\ nops < MaxOps
    /\ nops' = nops + 1
    /\ users' = [users EXCEPT ![u].Active = FALSE]
    /\ rotLog' = [s \in Scheds |-> <<>>]
    /\ UNCHANGED <<schedules, scheduleUsers, tasks, assignments, schedMu,
                   worker, ocRest>>

\* Two schedules, one of either policy and a sequential one, every
\* responder active and a member of both in the order of the ids.
InitOnCall ==
    /\ InitRegistry
    /\ InitAppIdle
    /\ InitLcIdle
    /\ InitCmdIdle
    /\ InitCfgIdle
    /\ InitSigIdle
    /\ webhookSecret = "k1"
    /\ logger = "set"
    /\ srvApp = TRUE
    /\ vin = NoCall
    /\ vout = NoResult
    /\ \E pol \in {RoundRobinPolicy, SequentialPolicy} :
         schedules = [s \in Scheds |->
             [Policy |-> IF s = 1 THEN pol ELSE SequentialPolicy,
              CurrentRotationIdx |-> 0]]
    /\ scheduleUsers = {[ScheduleID |-> s, UserID |-> u, Position |-> u - 1] :
                           s \in Scheds, u \in OcUsers}
    /\ users = [u \in OcUsers |-> [Active |-> TRUE]]
    /\ tasks = [t \in OcTasks |-> NoTaskRow]
    /\ assignments = {}
    /\ schedMu = [s \in Scheds |-> NoWorker]
    /\ worker = [w \in Workers |-> IdleWorker]
    /\ rotLog = [s \in Scheds |-> <<>>]
    /\ nops = 0

NextOnCall ==
    \/ \E w \in Workers, s \in Scheds :
         (\E t \in OcTasks : tasks[t].Status = "none")
             /\ Begin(w, "create", s, 0, NoUser)
    \/ \E w \in Workers, t \in OcTasks, op \in {"escalate", "ack", "complete"} :
         tasks[t].Status # "none"
             /\ Begin(w, op, tasks[t].ScheduleID, t, NoUser)
    \/ \E w \in Workers, s \in Scheds, u \in OcUsers :
         Begin(w, IF IsMember(s, u) THEN "remove" ELSE "add", s, 0, u)
    \/ \E w \in Workers : Lock(w)
    \/ \E w \in Workers : Read(w)
    \/ \E w \in Workers : Create(w)
    \/ \E w \in Workers : Escalate(w)
    \/ \E w \in Workers : Ack(w)
    \/ \E w \in Workers : Complete(w)
    \/ \E w \in Workers : RemoveMember(w)
    \/ \E w \in Workers : AddMember(w)
    \/ \E w \in Workers : Unlock(w)
    \/ \E u \in OcUsers : Deactivate(u)

SpecOnCall == InitOnCall /\ [][NextOnCall]_vars

NoneActive(s) == \A u \in OcUsers : IsMember(s, u) => ~users[u].Active

\* C16: under round-robin the responders are taken in cyclic order of
\* their positions: every assignment goes to the first active responder
\* from the rotation index, inactive ones being skipped, and leaves the
\* index one past the responder chosen, modulo the pool size; with no
\* active responder the task stays pending and the index stays put.
C16_RoundRobin ==
    /\ [](\A s \in Scheds :
            schedules[s].Policy = RoundRobinPolicy =>
               /\ \A i \in 1..Len(rotLog[s]) :
                     /\ rotLog[s][i] \in 0..(Size(s) - 1)
                     /\ users[UserAt(s, rotLog[s][i])].Active
               /\ \A i \in 1..(Len(rotLog[s]) - 1) :
                     rotLog[s][i + 1] =
                        FirstActiveFrom(s, NextIdx(s, rotLog[s][i]))
               /\ rotLog[s] # <<>> =>
                     schedules[s].CurrentRotationIdx =
                        NextIdx(s, rotLog[s][Len(rotLog[s])]))
    /\ [][\A t \in OcTasks :
            /\ tasks[t].Status \in {"none", "pending", "assigned"}
            /\ tasks'[t] # tasks[t]
            /\ tasks'[t].Status \in {"pending", "assigned"}
            /\ schedules[tasks'[t].ScheduleID].Policy = RoundRobinPolicy
            => LET s == tasks'[t].ScheduleID
                   p == FirstActiveFrom(s, schedules[s].CurrentRotationIdx)
               IN  IF NoneActive(s)
                   THEN /\ tasks'[t].Status = "pending"
                        /\ schedules' = schedules
                   ELSE /\ tasks'[t].Status = "assigned"
                        /\ tasks'[t].AssignedTo = UserAt(s, p)
                        /\ schedules'[s].CurrentRotationIdx = NextIdx(s, p)
                        /\ rotLog'[s] = Append(rotLog[s], p)]_vars

\* Two round-robin assignments in a row while a responder of the pool is
\* inactive.
C16_Witness ==
    /\ schedules[1].Policy = RoundRobinPolicy
    /\ Len(rotLog[1]) = 2
    /\ \E u \in OcUsers : IsMember(1, u) /\ ~users[u].Active

\* The responder the schedule's rotation index designates, inactive ones
\* skipped.
CurrentResponder(s) ==
    IF FirstActiveFrom(s, schedules[s].CurrentRotationIdx) = NoIdx
    THEN NoUser
    ELSE UserAt(s, FirstActiveFrom(s, schedules[s].CurrentRotationIdx))

\* Task t of schedule s is acknowledged or completed in this step.
AckedOrCompleted(s, t) ==
    /\ tasks[t].ScheduleID = s
    /\ \/ tasks[t].Status = "assigned" /\ tasks'[t].Status = "acked"
       \/ tasks[t].Status = "acked" /\ tasks'[t].Status = "completed"

OpenOf(as, t) == {a \in as : a.task = t /\ a.open}

\* C18: a task's status moves only along pending -> assigned -> acked ->
\* completed (a new task being pending, or assigned at once when a
\* responder is active), plus the reassignment assigned -> assigned; a
\* task is given a responder only from pending or assigned, an acked or
\* completed task keeps its responder and gets no new assignment, and a
\* task has at most one active assignment: exactly one, of its responder,
\* while assigned or acked and none otherwise.
C18_TaskStateMachine ==
    /\ [](\A t \in OcTasks :
            /\ Cardinality(OpenOf(assignments, t)) <= 1
            /\ tasks[t].Status \in {"assigned", "acked"} =>
                  OpenOf(assignments, t) =
                     {[task |-> t, user |-> tasks[t].AssignedTo, open |-> TRUE]}
            /\ tasks[t].Status \in {"none", "pending", "completed"} =>
                  OpenOf(assignments, t) = {})
    /\ [][\A t \in OcTasks :
            /\ tasks'[t].Status # tasks[t].Status =>
                  <<tasks[t].Status, tasks'[t].Status>> \in
                     {<<"none", "pending">>, <<"none", "assigned">>,
                      <<"pending", "assigned">>, <<"assigned", "acked">>,
                      <<"acked", "completed">>}
            /\ tasks[t].Status \in {"acked", "completed"} =>
                  /\ tasks'[t].AssignedTo = tasks[t].AssignedTo
                  /\ OpenOf(assignments', t) \subseteq OpenOf(assignments, t)
            /\ tasks'[t].AssignedTo # tasks[t].AssignedTo =>
                  /\ tasks[t].Status \in {"none", "pending", "assigned"}
                  /\ tasks'[t].Status = "assigned"]_vars

\* A task whose first assignment timed out: that assignment has ended and
\* the task is assigned to another responder.
C18_Witness ==
    \E t \in OcTasks :
       /\ tasks[t].Status = "assigned"
       /\ \E a \in assignments :
             a.task = t /\ ~a.open /\ a.user # tasks[t].AssignedTo

\* C19: in every reachable state the rotation index of each schedule is a
\* position of its membership list, or undefined when the list is empty,
\* and the positions of the members of one schedule are unique and are
\* exactly 0 .. n - 1, a responder being a member at most once.
C19_IndexAndPositionsValid ==
    \A s \in Scheds :
       /\ \A r1, r2 \in Members(s) :
             (r1.Position = r2.Position \/ r1.UserID = r2.UserID) => r1 = r2
       /\ {r.Position : r \in Members(s)} = 0..(Size(s) - 1)
       /\ IF Members(s) = {}
          THEN schedules[s].CurrentRotationIdx = NoIdx
          ELSE schedules[s].CurrentRotationIdx \in 0..(Size(s) - 1)

\* The responder at position 0 left the round-robin schedule after a task
\* had been assigned and the index stood at 1, and a responder of the
\* sequential schedule is inactive.
C19_Witness ==
    /\ schedules[1].Policy = RoundRobinPolicy
    /\ Size(1) = 1
    /\ UserAt(1, 0) = 2
    /\ schedules[1].CurrentRotationIdx = 0
    /\ \E t \in OcTasks : tasks[t].ScheduleID = 1 /\ tasks[t].Status = "assigned"
    /\ \E u \in OcUsers : IsMember(2, u) /\ ~users[u].Active

\* The handler is between taking and releasing its schedule's lock.
InCS(w) == worker[w].pc \in {"read", "write", "unlock"}

ActiveMembers(s) == {u \in OcUsers : IsMember(s, u) /\ users[u].Active}

\* C20: handlers of events for the same schedule run one at a time: two
\* are never both between lock and unlock, what a handler writes is
\* computed from the index and the task status as they are when it writes
\* (so no advance of the index is lost), and two round-robin assignments
\* in a row never take the same rotation step while another responder is
\* active; a handler waits only for a handler of its own schedule, never
\* for one of another schedule.
C20_SerializedPerSchedule ==
    /\ \A w1, w2 \in Workers :
          InCS(w1) /\ InCS(w2) /\ worker[w1].s = worker[w2].s => w1 = w2
    /\ \A w \in Workers : InCS(w) => schedMu[worker[w].s] = w
    /\ \A w \in Workers :
          worker[w].pc = "write" =>
             /\ worker[w].li = schedules[worker[w].s].CurrentRotationIdx
             /\ worker[w].t # 0 => worker[w].lst = tasks[worker[w].t].Status
    /\ \A s \in Scheds :
          schedules[s].Policy = RoundRobinPolicy /\ rotLog[s] # <<>> =>
             /\ schedules[s].CurrentRotationIdx =
                   NextIdx(s, rotLog[s][Len(rotLog[s])])
             /\ \A i \in 1..(Len(rotLog[s]) - 1) :
                   rotLog[s][i + 1] = rotLog[s][i] =>
                      Cardinality(ActiveMembers(s)) = 1
    /\ \A w \in Workers :
          /\ worker[w].pc = "lock"
          /\ \A w2 \in Workers \ {w} : InCS(w2) => worker[w2].s # worker[w].s
          => ENABLED Lock(w)

\* Two events create a task on the same schedule at once: one handler is
\* about to write and the other waits for the schedule's lock.
C20_Witness ==
    \E w1, w2 \in Workers :
       /\ worker[w1].pc = "write" /\ worker[w1].op = "create"
       /\ worker[w2].pc = "lock" /\ worker[w2].op = "create"
       /\ worker[w1].s = worker[w2].s
       /\ schedules[worker[w1].s].Policy = RoundRobinPolicy

\* Two handlers write at once, each on its own schedule.
C20_WitnessParallel ==
    \E w1, w2 \in Workers :
       /\ worker[w1].pc = "write" /\ worker[w2].pc = "write"
       /\ worker[w1].s # worker[w2].s

(***************************************************************************)
(* C21: whichever constructor built the Server, a 200 written for a        *)
(* webhook request comes after DispatchEvent was called for that request.  *)
(***************************************************************************)
C21_OkImpliesDispatch ==
    \A q \in Reqs :
        (req[q].via = "http" /\ req[q].resp = <<200>>) =>
            /\ Pos(req[q].steps, "dispatch") > 0
            /\ Pos(req[q].steps, "dispatch") < Pos(req[q].steps, "respond")

(***************************************************************************)
(* config.go: AppConfig, GlobalConfig, LoadConfig, LoadConfigFromFile,     *)
(* ValidateConfig, ApplyConfigDefaults. A map[string]any is a record that  *)
(* says whether the map is nil and gives the keys level and format, ""     *)
(* where the key is absent.                                                *)
(***************************************************************************)
MaxLoads == 2

LogNil == [isNil |-> TRUE, level |-> "", format |-> ""]
LogDefault == [isNil |-> FALSE, level |-> "info", format |-> "json"]
Logs == {LogNil,
         [isNil |-> FALSE, level |-> "", format |-> ""],
         [isNil |-> FALSE, level |-> "debug", format |-> ""],
         [isNil |-> FALSE, level |-> "debug", format |-> "text"]}

\* The zero AppConfig.
ZeroConfig == [WebHookSecret |-> "", Port |-> "", DBPath |-> "",
               GitHubToken |-> "", Log |-> LogNil]

\* What a YAML document decodes to: a key not given leaves the zero value.
Documents == [WebHookSecret : {"", "s1"}, Port : {"", "9090"},
              DBPath : {"", "otto.db"}, GitHubToken : {"", "t1"}, Log : Logs]

\* The file at a path: none, one that is not YAML for an AppConfig, or a
\* document.
Files == {[kind |-> "missing", doc |-> ZeroConfig],
          [kind |-> "garbled", doc |-> ZeroConfig]}
         \cup {[kind |-> "yaml", doc |-> d] : d \in Documents}

\* A validation that accepts every configuration.
ValidateConfigAny(config) == TRUE

\* ValidateConfig returns nil (TRUE) unless the secret is empty.
ValidateConfig(config) == config.WebHookSecret # ""

ApplyConfigDefaults(config) ==
    [config EXCEPT !.Port = IF @ = "" THEN "8080" ELSE @,
                   !.DBPath = IF @ = "" THEN "data.db" ELSE @,
                   !.Log = IF @.isNil THEN LogDefault ELSE @]

\* (config, err): os.Open, Decode, ValidateConfig, ApplyConfigDefaults.
LoadConfigFromFile(f) ==
    IF f.kind = "missing" THEN [err |-> "open", config |-> ZeroConfig]
    ELSE IF f.kind = "garbled" THEN [err |-> "decode", config |-> ZeroConfig]
    ELSE IF ~ValidateConfig(f.doc) THEN [err |-> "validate", config |-> ZeroConfig]
    ELSE [err |-> "nil", config |-> ApplyConfigDefaults(f.doc)]

NoLoad == [n |-> 0, err |-> "none", before |-> ZeroConfig]

\* LoadConfig(path): GlobalConfig = *config only when the load succeeded.
LoadConfig(f) ==
    /\ cfgOut.n < MaxLoads
    /\ cfgIn' = f
    /\ GlobalConfig' = IF LoadConfigFromFile(f).err = "nil"
                       THEN LoadConfigFromFile(f).config
                       ELSE GlobalConfig
    /\ cfgOut' = [n |-> cfgOut.n + 1, err |-> LoadConfigFromFile(f).err,
                  before |-> GlobalConfig]
    /\ UNCHANGED <<regVars, verVars, appVars, lcVars, cmdVars, ocVars, sigVars,
                   app, db, dbOnce, idb, opened, got>>

InitConfig ==
    /\ InitRegistry
    /\ InitAppIdle
    /\ InitLcIdle
    /\ InitCmdIdle
    /\ InitOcIdle
    /\ InitSigIdle
    /\ webhookSecret = "k1"
    /\ logger = "set"
    /\ srvApp = TRUE
    /\ vin = NoCall
    /\ vout = NoResult
    /\ GlobalConfig = ZeroConfig
    /\ cfgIn = [kind |-> "missing", doc |-> ZeroConfig]
    /\ cfgOut = NoLoad
    /\ app = <<>>
    /\ db = <<>>
    /\ dbOnce = "new"
    /\ idb = <<>>
    /\ opened = <<>>
    /\ got = <<>>

NextConfig == \E f \in Files : LoadConfig(f)

SpecConfig == InitConfig /\ [][NextConfig]_vars

(***************************************************************************)
(* C27: LoadConfig fails when the secret is empty (and when the file       *)
(* cannot be opened or decoded), a failed LoadConfig leaves GlobalConfig   *)
(* as it was, and a successful one leaves in GlobalConfig the document's   *)
(* values, its secret non-empty, with port 8080, path data.db and log      *)
(* info/json in the place of those not given.                              *)
(***************************************************************************)
C27_LoadConfig ==
    cfgOut.n > 0 =>
       LET d == cfgIn.doc
       IN  /\ cfgOut.err = "nil" <=> (cfgIn.kind = "yaml" /\ d.WebHookSecret # "")
           /\ cfgOut.err # "nil" => GlobalConfig = cfgOut.before
           /\ cfgOut.err = "nil" =>
                 /\ GlobalConfig.WebHookSecret # ""
                 /\ GlobalConfig.WebHookSecret = d.WebHookSecret
                 /\ GlobalConfig.GitHubToken = d.GitHubToken
                 /\ GlobalConfig.Port = (IF d.Port = "" THEN "8080" ELSE d.Port)
                 /\ GlobalConfig.DBPath =
                       (IF d.DBPath = "" THEN "data.db" ELSE d.DBPath)
                 /\ GlobalConfig.Log =
                       (IF d.Log.isNil
                        THEN [isNil |-> FALSE, level |-> "info", format |-> "json"]
                        ELSE d.Log)

\* After a successful load, a load of a document without secret failed and
\* left the earlier configuration, defaults and given values, in place.
C27_Witness ==
    /\ cfgOut.n = 2
    /\ cfgOut.err = "validate"
    /\ cfgIn.doc.Port = "9090"
    /\ GlobalConfig.WebHookSecret = "s1"
    /\ GlobalConfig.Port = "8080"
    /\ GlobalConfig.DBPath = "otto.db"
    /\ GlobalConfig.Log = [isNil |-> FALSE, level |-> "info", format |-> "json"]

(***************************************************************************)
(* db.go: db, dbOnce, InitDB, GetDB; and NewApp as far as its storage      *)
(* goes. Caller 0 is NewApp's InitDB call, the others are calls made       *)
(* elsewhere in the process. Whether sql.Open and Ping succeed is the      *)
(* environment's choice.                                                   *)
(***************************************************************************)
MaxDbCallers == 2
DbCallers == 0..MaxDbCallers
AppCaller == 0

\* A nil *sql.DB.
NilDB == [st |-> "nil", path |-> ""]
IdleIdb == [pc |-> "idle", err |-> "nil", ret |-> NilDB]
NoApp == [pc |-> "none", Config |-> ZeroConfig, DB |-> NilDB]

\* The configuration files of the storage runs: no file, no secret, no
\* db_path, a db_path.
DbFiles ==
    {f \in Files :
        /\ f.doc.Port = "" /\ f.doc.GitHubToken = "" /\ f.doc.Log = LogNil
        /\ f.kind # "garbled"
        /\ f.doc.WebHookSecret = "" => f.doc.DBPath = ""}

dbRest == <<regVars, verVars, appVars, lcVars, cmdVars, ocVars, sigVars>>

\* InitDB() is called: var err error.
InitDBCall(c) ==
    /\ c # AppCaller
    /\ idb[c].pc = "idle"
    /\ idb' = [idb EXCEPT ![c].pc = "once"]
    /\ UNCHANGED <<GlobalConfig, cfgIn, cfgOut, app, db, dbOnce, opened, got,
                   dbRest>>

\* dbOnce.Do(func() {...}): the first caller runs the function, a caller
\* that comes while it runs waits, a later one skips it.
OnceDo(c) ==
    /\ idb[c].pc = "once"
    /\ dbOnce # "running"
    /\ IF dbOnce = "new"
       THEN /\ dbOnce' = "running"
            /\ idb' = [idb EXCEPT ![c].pc = "open"]
       ELSE /\ dbOnce' = dbOnce
            /\ idb' = [idb EXCEPT ![c].pc = "ret"]
    /\ UNCHANGED <<GlobalConfig, cfgIn, cfgOut, app, db, opened, got, dbRest>>

\* dbPath := GlobalConfig.DBPath; db, err = sql.Open("sqlite3", dbPath);
\* on an error err is wrapped and the function returns.
SqlOpen(c, ok) ==
    /\ idb[c].pc = "open"
    /\ opened' = Append(opened, GlobalConfig.DBPath)
    /\ IF ok
       THEN /\ db' = [st |-> "open", path |-> GlobalConfig.DBPath]
            /\ idb' = [idb EXCEPT ![c].pc = "ping"]
            /\ dbOnce' = dbOnce
       ELSE /\ db' = NilDB
            /\ idb' = [idb EXCEPT ![c].pc = "ret", ![c].err = "open"]
            /\ dbOnce' = "done"
    /\ UNCHANGED <<GlobalConfig, cfgIn, cfgOut, app, got, dbRest>>

\* if pingErr := db.Ping(); pingErr != nil { db.Close(); err = ...; return }
Ping(c, ok) ==
    /\ idb[c].pc = "ping"
    /\ dbOnce' = "done"
    /\ IF ok
       THEN /\ db' = db
            /\ idb' = [idb EXCEPT ![c].pc = "ret"]
       ELSE /\ db' = [db EXCEPT !.st = "closed"]
            /\ idb' = [idb EXCEPT ![c].pc = "ret", ![c].err = "ping"]
    /\ UNCHANGED <<GlobalConfig, cfgIn, cfgOut, app, opened, got, dbRest>>

\* return db, err
InitDBReturn(c) ==
    /\ idb[c].pc = "ret"
    /\ idb' = [idb EXCEPT ![c].pc = "done", ![c].ret = db]
    /\ UNCHANGED <<GlobalConfig, cfgIn, cfgOut, app, db, dbOnce, opened, got,
                   dbRest>>

\* GetDB returns db.
GetDB ==
    /\ got' = db
    /\ UNCHANGED <<GlobalConfig, cfgIn, cfgOut, app, db, dbOnce, idb, opened,
                   dbRest>>

\* NewApp up to its InitDB call: config, err := LoadConfigFromFile(path),
\* app := &App{Config: config, ...}, InitTelemetry, app.DB, err = InitDB().
NewAppLoad(f, telemetry) ==
    /\ app.pc = "none"
    /\ idb[AppCaller].pc = "idle"
    /\ IF LoadConfigFromFile(f).err # "nil" \/ ~telemetry
       THEN /\ app' = [app EXCEPT !.pc = "failed"]
            /\ idb' = idb
       ELSE /\ app' = [app EXCEPT !.pc = "initdb",
                                  !.Config = LoadConfigFromFile(f).config]
            /\ idb' = [idb EXCEPT ![AppCaller].pc = "once"]
    /\ UNCHANGED <<GlobalConfig, cfgIn, cfgOut, db, dbOnce, opened, got, dbRest>>

\* if err != nil { return nil, err }; ...; return app, nil
NewAppInitDB ==
    /\ app.pc = "initdb"
    /\ idb[AppCaller].pc = "done"
    /\ IF idb[AppCaller].err # "nil"
       THEN app' = [app EXCEPT !.pc = "failed"]
       ELSE app' = [app EXCEPT !.pc = "ok", !.DB = idb[AppCaller].ret]
    /\ UNCHANGED <<GlobalConfig, cfgIn, cfgOut, db, dbOnce, idb, opened, got,
                   dbRest>>

InitStorage ==
    /\ InitRegistry
    /\ InitAppIdle
    /\ InitLcIdle
    /\ InitCmdIdle
    /\ InitOcIdle
    /\ InitSigIdle
    /\ webhookSecret = "k1"
    /\ logger = "set"
    /\ srvApp = TRUE
    /\ vin = NoCall
    /\ vout = NoResult
    /\ GlobalConfig = ZeroConfig
    /\ cfgIn = [kind |-> "missing", doc |-> ZeroConfig]
    /\ cfgOut = NoLoad
    /\ app = NoApp
    /\ db = NilDB
    /\ dbOnce = "new"
    /\ idb = [c \in DbCallers |-> IdleIdb]
    /\ opened = <<>>
    /\ got = NilDB

NextStorage ==
    \/ \E f \in DbFiles : LoadConfig(f)
    \/ \E f \in DbFiles, telemetry \in BOOLEAN : NewAppLoad(f, telemetry)
    \/ NewAppInitDB
    \/ \E c \in DbCallers : InitDBCall(c)
    \/ \E c \in DbCallers : OnceDo(c)
    \/ \E c \in DbCallers, ok \in BOOLEAN : SqlOpen(c, ok)
    \/ \E c \in DbCallers, ok \in BOOLEAN : Ping(c, ok)
    \/ \E c \in DbCallers : InitDBReturn(c)
    \/ GetDB

SpecStorage == InitStorage /\ [][NextStorage]_vars

(***************************************************************************)
(* C22: an App that NewApp returned holds an open connection to the        *)
(* database at the DBPath of the configuration NewApp loaded.              *)
(***************************************************************************)
C22_StorageAtConfiguredPath ==
    app.pc = "ok" =>
        /\ app.DB.st = "open"
        /\ app.DB.path = app.Config.DBPath

(***************************************************************************)
(* C24: sql.Open is called at most once, an InitDB call returns a nil      *)
(* error only with an open handle, and GetDB never returns a handle that   *)
(* was closed after a failed ping.                                         *)
(***************************************************************************)
C24_InitDBOnceAndHonest ==
    /\ Len(opened) <= 1
    /\ \A c \in DbCallers :
          (idb[c].pc = "done" /\ idb[c].err = "nil") => idb[c].ret.st = "open"
    /\ got.st # "closed"

(***************************************************************************)
(* The lifecycle of an App together with the events it dispatches: while   *)
(* the App is started, a.DispatchEvent is called (by the webhook handler   *)
(* or directly) and its goroutines run on while Shutdown proceeds.         *)
(***************************************************************************)
\* a.DispatchEvent(eventType, event, raw) on the started App.
AppDispatchEvent(q, et, payload) ==
    /\ Alive
    /\ lc.pc = "started"
    /\ req[q].pc = "new"
    /\ q > 1 => req[q - 1].pc = "done"
    /\ req' = [req EXCEPT ![q] = [NewReq EXCEPT !.pc = "getmodules",
                  !.via = "direct", !.payload = payload, !.et = et,
                  !.steps = <<"dispatch">>]]
    /\ gm' = [gm EXCEPT ![ReqId(q)].pc = "rlock"]
    /\ UNCHANGED <<modules, rwW, readers, reg, slog, ncalls, verVars, extVars,
                   logger, srvApp, task, appLog, fault, main>>

NextDrain ==
    \/ NextLifecycle
    \/ \E q \in Reqs : AppDispatchEvent(q, "issues", "p1")
    \/ \E q \in Reqs : GmRLock(ReqId(q))
    \/ \E q \in Reqs : GmCopy(ReqId(q))
    \/ \E q \in Reqs : GmRUnlock(ReqId(q))
    \/ \E q \in Reqs : DispatchSpawn(q)
    \/ \E q \in Reqs : DispatchReturn(q)
    \/ \E q \in Reqs, n \in Names : TaskReturnNil(q, n)
    \/ \E q \in Reqs, n \in Names : TaskReturnErr(q, n)
    \/ \E q \in Reqs, n \in Names : TaskHang(q, n)

SpecDrain == InitLifecycle /\ [][NextDrain]_vars

(***************************************************************************)
(* C23: once shutdownModules has returned, and so when storage is closed   *)
(* and when Shutdown returns, no HandleEvent goroutine of an earlier       *)
(* DispatchEvent is still to run or running.                               *)
(***************************************************************************)
C23_ShutdownDrainsHandlers ==
    lc.pc \in {"sd_tel", "sd_db", "sd_ret", "stopped"} =>
        \A q \in Reqs, n \in Names : task[q][n].st \in {"none", "done"}

\* The lifecycle with every runnable goroutine scheduled in the end.
SpecLifecycleFair == SpecLifecycle /\ WF_vars(NextLifecycle)

\* shutdownModules has returned.
ShutdownModulesReturned == lc.pc \in {"sd_tel", "sd_db", "sd_ret", "stopped"}

\* The Shutdown calls made on module n.
ShutdownCalls(n) ==
    Cardinality({i \in 1..Len(lcLog) : lcLog[i] = [ev |-> "sd_begin", n |-> n]})

(***************************************************************************)
(* C25: shutdownModules returns once every module's Shutdown has returned  *)
(* (a process still running and no Shutdown that hangs), however many      *)
(* modules there are and however many fail: no goroutine blocks sending    *)
(* its error. Shutdown is called at most once per module and, by the time  *)
(* shutdownModules returns, exactly once on each registered module that    *)
(* implements it and on no other; the value returned is an error if and    *)
(* only if some Shutdown failed, and then the error of one that failed.    *)
(***************************************************************************)
C25_ShutdownModulesTerminates ==
    /\ [](\A n \in Names :
            /\ sd[n] # "blocked"
            /\ ShutdownCalls(n) <= 1)
    /\ [](ShutdownModulesReturned =>
            /\ \A n \in Names :
                  ShutdownCalls(n) =
                     (IF lc.snap[n] # NoModule /\ ImplementsShutdown(lc.snap[n])
                      THEN 1 ELSE 0)
            /\ lc.merr = FirstError(lc.errors)
            /\ lc.errors # <<>> <=> \E n \in Names : sd[n] = "failed"
            /\ lc.errors # <<>> => sd[Head(lc.errors)] = "failed")
    /\ (lc.pc = "sd_get") ~>
          \/ ShutdownModulesReturned
          \/ \E n \in Names : sd[n] = "hung"
          \/ ~Alive

\* shutdownModules has returned after the Shutdown of two modules failed.
C25_Witness ==
    /\ ShutdownModulesReturned
    /\ Len(lc.errors) = 2
    /\ \A n \in Names : sd[n] = "failed"

(***************************************************************************)
(* App.WaitForShutdown and App.SignalShutdown on the channel NewApp made:  *)
(* shutdownSignal: make(chan struct{}).                                    *)
(***************************************************************************)
MaxWaiters == 3
MaxWaitCalls == 2
MaxSignals == 2
Waiters == 1..MaxWaiters

sigRest == <<regVars, verVars, logger, srvApp, req, task, appLog, main, lcVars,
             cmdVars, ocVars, cfgVars>>

\* A goroutine calls a.WaitForShutdown(): <-a.shutdownSignal.
WaitForShutdownCall(w) ==
    /\ Alive
    /\ wfs[w].st \in {"idle", "returned"}
    /\ wfs[w].calls < MaxWaitCalls
    /\ wfs' = [wfs EXCEPT ![w] = [st |-> "waiting", calls |-> @.calls + 1]]
    /\ UNCHANGED <<shutdownSignal, nsig, fault, sigRest>>

\* The receive returns: only a closed channel lets it, nothing is sent.
WaitForShutdownReturn(w) ==
    /\ Alive
    /\ wfs[w].st = "waiting"
    /\ shutdownSignal = "closed"
    /\ wfs' = [wfs EXCEPT ![w].st = "returned"]
    /\ UNCHANGED <<shutdownSignal, nsig, fault, sigRest>>

\* a.SignalShutdown(): close(a.shutdownSignal). Closing a closed channel
\* panics, and nothing recovers.
SignalShutdown ==
    /\ Alive
    /\ nsig < MaxSignals
    /\ nsig' = nsig + 1
    /\ IF shutdownSignal = "open"
       THEN /\ shutdownSignal' = "closed"
            /\ fault' = fault
       ELSE /\ shutdownSignal' = shutdownSignal
            /\ fault' = "close of closed channel"
    /\ UNCHANGED <<wfs, sigRest>>

InitSignal ==
    /\ InitRegistry
    /\ InitAppIdle
    /\ InitLcIdle
    /\ InitCmdIdle
    /\ InitOcIdle
    /\ InitCfgIdle
    /\ webhookSecret = "k1"
    /\ logger = "set"
    /\ srvApp = TRUE
    /\ vin = NoCall
    /\ vout = NoResult
    /\ shutdownSignal = "open"
    /\ wfs = [w \in Waiters |-> [st |-> "idle", calls |-> 0]]
    /\ nsig = 0

NextSignal ==
    \/ \E w \in Waiters : WaitForShutdownCall(w)
    \/ \E w \in Waiters : WaitForShutdownReturn(w)
    \/ SignalShutdown

SpecSignal == InitSignal /\ [][NextSignal]_vars

(***************************************************************************)
(* C26: no WaitForShutdown call returns before SignalShutdown was called;  *)
(* after it every waiting call can return, and so can every later one;     *)
(* and however often SignalShutdown is called the process does not crash.  *)
(***************************************************************************)
C26_SignalShutdown ==
    /\ \A w \in Waiters : wfs[w].st = "returned" => nsig >= 1
    /\ \A w \in Waiters :
          (Alive /\ wfs[w].st = "waiting" /\ nsig >= 1)
              => ENABLED WaitForShutdownReturn(w)
    /\ Alive

====
